---------------------------- MODULE Spec2Model ----------------------------
(***************************************************************************)
(* hipdiff: a reader of HIP archives (hip.h / hip.cpp, here                *)
(* src/unnamed/part_001 and src/unnamed/part_000) and the diff of two      *)
(* loaded archives (src/main.cpp).                                         *)
(*                                                                         *)
(* Two state machines share this module.                                   *)
(*   Spec      main() from the two successful read() calls to the final    *)
(*             printf: hackPCRTString, the three index tables, the header  *)
(*             diff, the asset loop and the layer loop.                    *)
(*   SpecRead  Hip::read() over a byte stream: enterBlock / exitBlock and  *)
(*             the recursive chunk readers.                                *)
(*                                                                         *)
(* Numbers are uint32_t values; characters are their codes; a C string is  *)
(* the sequence of the codes before its terminator.  Indices are 0-based   *)
(* as in the source, -1 is the source's "absent"; the k-th element of a    *)
(* C array a is a[k+1] here.                                               *)
(***************************************************************************)
EXTENDS Integers, Sequences, FiniteSets, TLC

\* ------------------------------------------------------------------ bounds
\* Asset ids range over 1..MaxId.
MaxId == 3
\* At most MaxAssets asset headers per archive (asset family).
MaxAssets == 2
\* At most MaxLayers layer headers per archive.
MaxLayers == 2
\* At most MaxMembers asset ids listed over all layers of one archive.
MaxMembers == 2
\* At most MaxFieldDiffs fields differ between the two sides (field and
\* header families).
MaxFieldDiffs == 2
\* At most MaxPlatStrings platform strings per archive in the model.
MaxPlatStrings == 2

\* ------------------------------------------------------- program constants
HIP_MAX_STACK_DEPTH == 8
HIP_MAX_PLATFORM_STRINGS == 4
HIP_STRING_SIZE == 32

\* '\n'
NL == 10

\* ----------------------------------------------------------------- helpers
Range(s) == {s[i] : i \in 1..Len(s)}

RECURSIVE SetToSeq(_)
\* The elements of a finite set of integers in ascending order (the order
\* in which a std::map<uint32_t, ...> is iterated).
SetToSeq(S) ==
    IF S = {} THEN << >>
    ELSE LET x == CHOOSE y \in S : \A z \in S : y <= z
         IN <<x>> \o SetToSeq(S \ {x})

RECURSIVE Flatten(_)
Flatten(ss) == IF Len(ss) = 0 THEN << >> ELSE Head(ss) \o Flatten(Tail(ss))

Perms(S) ==
    {p \in [1..Cardinality(S) -> S] : \A i, j \in 1..Cardinality(S) : p[i] = p[j] => i = j}

\* m[k] of a std::map / std::unordered_map: a missing key reads as dflt
\* (operator[] value-initialises it).
Get(f, k, dflt) == IF k \in DOMAIN f THEN f[k] ELSE dflt

\* m[k] = v
Put(f, k, v) == [x \in DOMAIN f \cup {k} |-> IF x = k THEN v ELSE f[x]]

MaxOf(S) == CHOOSE x \in S : \A y \in S : y <= x

\* ------------------------------------------------------------ the archive
\* struct Hip::AHDR.  data is the pointer dpak.data + offset - dataStart set
\* by readDPAK: [set |-> FALSE] is the null pointer left by the memset of
\* readDICT, off is the index into the dpak.data allocation.
AHDR(id, type, offset, size, plus, flags, data) ==
    [id |-> id, type |-> type, offset |-> offset, size |-> size,
     plus |-> plus, flags |-> flags, data |-> data]

ADBG(align, name, filename, checksum) ==
    [align |-> align, name |-> name, filename |-> filename, checksum |-> checksum]

LHDR(type, assetIDs) ==
    [type |-> type, assetCount |-> Len(assetIDs), assetIDs |-> assetIDs]

LDBG(v) == [ldbg |-> v]

NullPtr == [set |-> FALSE, off |-> 0]

Ptr(off) == [set |-> TRUE, off |-> off]

\* The archive after Hip::Hip(): memset(this, 0, sizeof(*this)).
ZeroHip ==
    [pver |-> [subVersion |-> 0, clientVersion |-> 0, compatVersion |-> 0],
     pflg |-> [flags |-> 0],
     pcnt |-> [assetCount |-> 0, layerCount |-> 0, maxAssetSize |-> 0,
               maxLayerSize |-> 0, maxXformAssetSize |-> 0],
     pcrt |-> [time |-> 0, string |-> << >>],
     pmod |-> [time |-> 0],
     plat |-> [exists |-> FALSE, id |-> 0, stringCount |-> 0, strings |-> << >>],
     ainf |-> [ainf |-> 0],
     ahdr |-> << >>, adbg |-> << >>, lhdr |-> << >>, ldbg |-> << >>,
     dpak |-> [padAmount |-> 0, data |-> << >>]]

\* ------------------------------------------------------------ diff entries
\* sprintf_s(buf, 64, fmt, val): the text is the pair of the format and the
\* value it renders.  Every format of main.cpp prints its one argument in
\* full (%d, %X, %08X, %s) and the longest, "      filename: %s" with a
\* 31-character string, has 47 characters, so nothing is cut at 64.
Text(fmt, val) == [fmt |-> fmt, val |-> val]

\* diff.left[0] = '\0' / diff.right[0] = '\0'
NoText == [fmt |-> "", val |-> << >>]

\* struct Diff.  id is a ghost field: the asset id the entry was made for
\* (0: an entry made for no asset); the program keeps only the two texts.
Diff(type, left, right, id) == [type |-> type, left |-> left, right |-> right, id |-> id]

Buckets ==
    {"pverDiffs", "pflgDiffs", "pcntDiffs", "pcrtDiffs", "pmodDiffs", "platDiffs",
     "ainfDiffs", "assetAdditions", "assetDeletions", "assetModifications",
     "layerAdditions", "layerDeletions", "layerModifications"}

\* The local vectors of the loop bodies.
LocalVectors == {"ahdrMods", "adbgMods", "lhdrMods", "ldbgMods"}

\* The globals of main.cpp and the counters of main() before the diff.
\* dataChanged is a ghost: asset id -> the value of the local dataChanged.
\* layerLog is a ghost: per pass of the layer loop, the pair and what the
\* pass added to the layer vectors and to the three counters.
\* lookups is a ghost: the adbg[ahdrIndices[id].oidx / .midx] reads of the
\* layer loop, each with the archive ("o" / "m"), the id and the index.
\* crashed: a read outside an object ended the process.
ZeroReport ==
    [v |-> [b \in Buckets \cup LocalVectors |-> << >>],
     additionCount |-> 0, deletionCount |-> 0, modificationCount |-> 0,
     countsEnabled |-> TRUE,
     numAssetsAdded |-> 0, numAssetsDeleted |-> 0, numAssetsModified |-> 0,
     numLayersAdded |-> 0, numLayersDeleted |-> 0, numLayersModified |-> 0,
     addedAssets |-> {}, deletedAssets |-> {},
     dataChanged |-> << >>,
     layerLog |-> << >>,
     lookups |-> {},
     crashed |-> FALSE]

\* An ADDITION that leaves additionCount alone.
ADDITIONUncounted(r, vec, fmt, val, id) ==
    [r EXCEPT !.v[vec] = Append(@, Diff("Addition", NoText, Text(fmt, val), id))]

ADDITION(r, vec, fmt, val, id) ==
    LET r1 == [r EXCEPT !.v[vec] = Append(@, Diff("Addition", NoText, Text(fmt, val), id))]
    IN  IF r.countsEnabled THEN [r1 EXCEPT !.additionCount = @ + 1] ELSE r1

DELETION(r, vec, fmt, val, id) ==
    LET r1 == [r EXCEPT !.v[vec] = Append(@, Diff("Deletion", Text(fmt, val), NoText, id))]
    IN  IF r.countsEnabled THEN [r1 EXCEPT !.deletionCount = @ + 1] ELSE r1

MODIFICATION(r, vec, fmt, left, right, id) ==
    LET r1 == [r EXCEPT !.v[vec] =
                   Append(@, Diff("Modification", Text(fmt, left), Text(fmt, right), id))]
    IN  IF r.countsEnabled THEN [r1 EXCEPT !.modificationCount = @ + 1] ELSE r1

\* A run of ADDITION / DELETION calls on one vector: lines is the sequence
\* of their <<fmt, val>> arguments.
RECURSIVE Additions(_, _, _, _)
Additions(r, vec, lines, id) ==
    IF Len(lines) = 0 THEN r
    ELSE Additions(ADDITION(r, vec, Head(lines)[1], Head(lines)[2], id), vec, Tail(lines), id)

RECURSIVE Deletions(_, _, _, _)
Deletions(r, vec, lines, id) ==
    IF Len(lines) = 0 THEN r
    ELSE Deletions(DELETION(r, vec, Head(lines)[1], Head(lines)[2], id), vec, Tail(lines), id)

\* if (l != r) MODIFICATION(vec, fmt, l, r);
ModIf(r, cond, vec, fmt, left, right, id) ==
    IF cond THEN MODIFICATION(r, vec, fmt, left, right, id) ELSE r

\* -------------------------------------------------------- hackPCRTString
\* size_t len = strlen(str); if (str[len-1] == '\n') str[len-1] = '\0';
\* For the empty string str[len-1] is the byte before pcrt.string, the last
\* byte of pcrt.time in memory: its most significant byte on the
\* little-endian hosts the program is built for.
hackPCRTString(pcrt) ==
    LET len == Len(pcrt.string)
    IN  IF len = 0
        THEN IF pcrt.time \div 16777216 = NL
             THEN [pcrt EXCEPT !.time = pcrt.time % 16777216]
             ELSE pcrt
        ELSE IF pcrt.string[len] = NL
             THEN [pcrt EXCEPT !.string = SubSeq(pcrt.string, 1, len - 1)]
             ELSE pcrt

\* ----------------------------------------------------------- index tables
\* struct Index { int oidx = -1; int midx = -1; };
Index(oidx, midx) == [oidx |-> oidx, midx |-> midx]

NoIndex == Index(-1, -1)

\* The last i < assetCount with ahdr[i].id = id, or -1: the value the loop
\* "for (i...) ahdrIndices[hip.ahdr[i].id].?idx = i" leaves in the table.
LastAsset(hip, id) ==
    LET S == {i \in 0..(hip.pcnt.assetCount - 1) : hip.ahdr[i + 1].id = id}
    IN  IF S = {} THEN -1 ELSE MaxOf(S)

\* A table that never pairs the two sides of an id: an id of the original
\* keeps midx = -1.
AhdrIndicesUnmatched(oh, mh) ==
    LET ids == {oh.ahdr[i].id : i \in 1..oh.pcnt.assetCount}
               \cup {mh.ahdr[i].id : i \in 1..mh.pcnt.assetCount}
    IN  [id \in ids |-> IF LastAsset(oh, id) # -1
                        THEN Index(LastAsset(oh, id), -1)
                        ELSE Index(-1, LastAsset(mh, id))]

\* std::map<uint32_t, Index> ahdrIndices after its two loops.
AhdrIndices(oh, mh) ==
    LET ids == {oh.ahdr[i].id : i \in 1..oh.pcnt.assetCount}
               \cup {mh.ahdr[i].id : i \in 1..mh.pcnt.assetCount}
    IN  [id \in ids |-> Index(LastAsset(oh, id), LastAsset(mh, id))]

\* for (i < ohip.pcnt.layerCount) lhdrIndices[type].push_back({i, -1});
RECURSIVE PushOriginalLayers(_, _, _)
PushOriginalLayers(oh, i, li) ==
    IF i >= oh.pcnt.layerCount THEN li
    ELSE LET type == oh.lhdr[i + 1].type
         IN  PushOriginalLayers(oh, i + 1,
                 Put(li, type, Append(Get(li, type, << >>), Index(i, -1))))

\* A matcher that never pairs: every layer of the modified archive gets a
\* new pair.
RECURSIVE MatchModifiedLayersUnpaired(_, _, _, _)
MatchModifiedLayersUnpaired(mh, i, li, mLayerCounts) ==
    IF i >= mh.pcnt.layerCount THEN li
    ELSE LET type == mh.lhdr[i + 1].type
         IN  MatchModifiedLayersUnpaired(mh, i + 1,
                 Put(li, type, Append(Get(li, type, << >>), Index(-1, i))), mLayerCounts)

\* for (i < mhip.pcnt.layerCount): the mLayerCounts[type]-th pair of the
\* type gets midx = i, a new pair is pushed when there is none.
RECURSIVE MatchModifiedLayers(_, _, _, _)
MatchModifiedLayers(mh, i, li, mLayerCounts) ==
    IF i >= mh.pcnt.layerCount THEN li
    ELSE LET type == mh.lhdr[i + 1].type
             cur  == Get(li, type, << >>)
             n    == Get(mLayerCounts, type, 0)
             new  == IF Len(cur) < n + 1
                     THEN Append(cur, Index(-1, i))
                     ELSE [cur EXCEPT ![n + 1].midx = i]
         IN  MatchModifiedLayers(mh, i + 1, Put(li, type, new),
                                 Put(mLayerCounts, type, n + 1))

\* std::unordered_map<uint32_t, std::vector<Index>> lhdrIndices.
LhdrIndices(oh, mh) ==
    MatchModifiedLayers(mh, 0, PushOriginalLayers(oh, 0, << >>), << >>)

\* The last layer i < layerCount that lists id among its assetCount ids, or -1.
LastLayerOf(hip, id) ==
    LET S == {i \in 0..(hip.pcnt.layerCount - 1) :
                 \E j \in 1..hip.lhdr[i + 1].assetCount : hip.lhdr[i + 1].assetIDs[j] = id}
    IN  IF S = {} THEN -1 ELSE MaxOf(S)

LayerMemberIds(hip) ==
    UNION {{hip.lhdr[i].assetIDs[j] : j \in 1..hip.lhdr[i].assetCount} :
              i \in 1..hip.pcnt.layerCount}

\* std::map<uint32_t, Index> ahdrLHDRIndices after its two loops.
AhdrLHDRIndices(oh, mh) ==
    [id \in LayerMemberIds(oh) \cup LayerMemberIds(mh) |->
        Index(LastLayerOf(oh, id), LastLayerOf(mh, id))]

\* The pairs of lhdrIndices in the order the layer loop visits them when the
\* unordered_map is iterated in the order typeOrder of its keys.
LayerPairs(li, order) ==
    Flatten([k \in 1..Len(order) |-> li[order[k]]])

\* ------------------------------------------------------------ header diff
Num(n) == <<n>>

\* main.cpp 422-451
PlatDiff(r, oh, mh) ==
    LET op == oh.plat
        mp == mh.plat
        RECURSIVE Strings(_, _, _)
        Strings(r0, i, n) ==
            IF i >= n THEN r0
            ELSE Strings(
                   IF i >= op.stringCount
                   THEN ADDITION(r0, "platDiffs", "  \"%s\"", mp.strings[i + 1], 0)
                   ELSE IF i >= mp.stringCount
                   THEN DELETION(r0, "platDiffs", "  \"%s\"", op.strings[i + 1], 0)
                   ELSE ModIf(r0, mp.strings[i + 1] # op.strings[i + 1], "platDiffs",
                              "  \"%s\"", op.strings[i + 1], mp.strings[i + 1], 0),
                   i + 1, n)
    IN  IF ~(op.exists \/ mp.exists) THEN r
        ELSE IF op.exists # mp.exists
        THEN IF op.exists /\ ~mp.exists
             THEN Deletions(DELETION(r, "platDiffs", "  id: 0x%08X", Num(op.id), 0),
                            "platDiffs",
                            [i \in 1..op.stringCount |-> <<"  \"%s\"", op.strings[i]>>], 0)
             ELSE Additions(ADDITION(r, "platDiffs", "  id: 0x%08X", Num(mp.id), 0),
                            "platDiffs",
                            [i \in 1..mp.stringCount |-> <<"  \"%s\"", mp.strings[i]>>], 0)
        ELSE LET r1 == ModIf(r, op.id # mp.id, "platDiffs", "  id: 0x%08X",
                             Num(op.id), Num(mp.id), 0)
                 n  == IF op.stringCount < mp.stringCount
                       THEN mp.stringCount ELSE op.stringCount
             IN  Strings(r1, 0, n)

\* main.cpp 396-455
HeaderDiff(r, oh, mh) ==
    LET N(x, c, vec, fmt, l, rr) == ModIf(x, c, vec, fmt, Num(l), Num(rr), 0)
        r1  == N(r, oh.pver.subVersion # mh.pver.subVersion, "pverDiffs",
                 "  subVersion: 0x%X", oh.pver.subVersion, mh.pver.subVersion)
        r2  == N(r1, oh.pver.clientVersion # mh.pver.clientVersion, "pverDiffs",
                 "  clientVersion: 0x%X", oh.pver.clientVersion, mh.pver.clientVersion)
        r3  == N(r2, oh.pver.compatVersion # mh.pver.compatVersion, "pverDiffs",
                 "  compatVersion: 0x%X", oh.pver.compatVersion, mh.pver.compatVersion)
        r4  == N(r3, oh.pflg.flags # mh.pflg.flags, "pflgDiffs",
                 "  flags: 0x%X", oh.pflg.flags, mh.pflg.flags)
        r5  == N(r4, oh.pcnt.assetCount # mh.pcnt.assetCount, "pcntDiffs",
                 "  assetCount: %d", oh.pcnt.assetCount, mh.pcnt.assetCount)
        r6  == N(r5, oh.pcnt.layerCount # mh.pcnt.layerCount, "pcntDiffs",
                 "  layerCount: %d", oh.pcnt.layerCount, mh.pcnt.layerCount)
        r7  == N(r6, oh.pcnt.maxAssetSize # mh.pcnt.maxAssetSize, "pcntDiffs",
                 "  maxAssetSize: %d", oh.pcnt.maxAssetSize, mh.pcnt.maxAssetSize)
        r8  == N(r7, oh.pcnt.maxLayerSize # mh.pcnt.maxLayerSize, "pcntDiffs",
                 "  maxLayerSize: %d", oh.pcnt.maxLayerSize, mh.pcnt.maxLayerSize)
        r9  == N(r8, oh.pcnt.maxXformAssetSize # mh.pcnt.maxXformAssetSize, "pcntDiffs",
                 "  maxXformAssetSize: %d", oh.pcnt.maxXformAssetSize,
                 mh.pcnt.maxXformAssetSize)
        r10 == N(r9, oh.pcrt.time # mh.pcrt.time, "pcrtDiffs",
                 "  time: %d", oh.pcrt.time, mh.pcrt.time)
        r11 == ModIf(r10, oh.pcrt.string # mh.pcrt.string, "pcrtDiffs",
                     "  \"%s\"", oh.pcrt.string, mh.pcrt.string, 0)
        r12 == N(r11, oh.pmod.time # mh.pmod.time, "pmodDiffs",
                 "  time: %d", oh.pmod.time, mh.pmod.time)
        r13 == PlatDiff(r12, oh, mh)
    IN  N(r13, oh.ainf.ainf # mh.ainf.ainf, "ainfDiffs",
          "  ainf: %d", oh.ainf.ainf, mh.ainf.ainf)

\* ------------------------------------------------------------- asset diff
\* The outcomes of a read outside an object (undefined behaviour): the
\* process ends (0), or the read yields some bytes (1, 2).
UBOutcomes == {0, 1, 2}

\* The n bytes at p are inside the hip.dpak.data allocation.
Readable(hip, p, n) == p.set /\ 0 <= p.off /\ p.off + n <= Len(hip.dpak.data)

Bytes(hip, p, n) == SubSeq(hip.dpak.data, p.off + 1, p.off + n)

\* memcmp(oahdr.data, mahdr.data, n) != 0: "ne" / "eq", or "crash".  No byte
\* is read for n = 0.  Outside the two buffers the result is whatever the
\* memory holds: ub picks it.
Memcmp(oh, mh, oahdr, mahdr, n, ub) ==
    IF n = 0 THEN "eq"
    ELSE IF Readable(oh, oahdr.data, n) /\ Readable(mh, mahdr.data, n)
    THEN IF Bytes(oh, oahdr.data, n) = Bytes(mh, mahdr.data, n) THEN "eq" ELSE "ne"
    ELSE CASE ub = 0 -> "crash"
           [] ub = 1 -> "eq"
           [] OTHER  -> "ne"

\* A dataChanged that looks at the sizes before the checksums.
DataChangedBySize(oh, mh, oahdr, mahdr, oadbg, madbg, opt, ub) ==
    IF oahdr.size # mahdr.size THEN [crash |-> FALSE, v |-> TRUE]
    ELSE IF opt.ignoreDataIfChksumMatch
    THEN [crash |-> FALSE, v |-> oadbg.checksum # madbg.checksum]
    ELSE LET c == Memcmp(oh, mh, oahdr, mahdr, oahdr.size, ub)
         IN  [crash |-> c = "crash", v |-> c = "ne"]

\* main.cpp 515-528: the local dataChanged (v), or the end of the process
\* (crash).
DataChanged(oh, mh, oahdr, mahdr, oadbg, madbg, opt, ub) ==
    IF opt.ignoreDataIfChksumMatch
    THEN [crash |-> FALSE, v |-> oadbg.checksum # madbg.checksum]
    ELSE IF oahdr.size = mahdr.size
         THEN LET c == Memcmp(oh, mh, oahdr, mahdr, oahdr.size, ub)
              IN  [crash |-> c = "crash", v |-> c = "ne"]
         ELSE [crash |-> FALSE, v |-> TRUE]

\* The twelve lines of a detailed asset addition / deletion.
AssetLines(ahdr, adbg) ==
    << <<"  AHDR (%s)", adbg.name>>,
       <<"    id: 0x%08X", Num(ahdr.id)>>,
       <<"    type: 0x%08X", Num(ahdr.type)>>,
       <<"    offset: %d", Num(ahdr.offset)>>,
       <<"    size: %d", Num(ahdr.size)>>,
       <<"    plus: %d", Num(ahdr.plus)>>,
       <<"    flags: 0x%08X", Num(ahdr.flags)>>,
       <<"    ADBG", << >> >>,
       <<"      align: %d", Num(adbg.align)>>,
       <<"      name: %s", adbg.name>>,
       <<"      filename: %s", adbg.filename>>,
       <<"      checksum: 0x%08X", Num(adbg.checksum)>> >>

\* An asset addition that is not remembered in addedAssets.
AssetAddedUnrecorded(r, mh, a, opt) ==
    [ADDITION(r, "assetAdditions", "  %s", mh.adbg[a.midx + 1].name, mh.ahdr[a.midx + 1].id)
        EXCEPT !.numAssetsAdded = @ + 1]

\* main.cpp 460-483
AssetAdded(r, mh, a, opt) ==
    LET mahdr == mh.ahdr[a.midx + 1]
        madbg == mh.adbg[a.midx + 1]
        r1 == IF opt.detailedAssets
              THEN LET x1 == [r EXCEPT !.countsEnabled = FALSE]
                       x2 == Additions(x1, "assetAdditions", AssetLines(mahdr, madbg), mahdr.id)
                   IN  [x2 EXCEPT !.additionCount = @ + 1, !.countsEnabled = TRUE]
              ELSE ADDITION(r, "assetAdditions", "  %s", madbg.name, mahdr.id)
    IN  [r1 EXCEPT !.numAssetsAdded = @ + 1, !.addedAssets = @ \cup {mahdr.id}]

\* An asset deletion that leaves deletionCount alone.
AssetDeletedUncounted(r, oh, a, opt) ==
    [r EXCEPT !.v["assetDeletions"] =
                  Append(@, Diff("Deletion", Text("  %s", oh.adbg[a.oidx + 1].name), NoText,
                                 oh.ahdr[a.oidx + 1].id)),
              !.numAssetsDeleted = @ + 1,
              !.deletedAssets = @ \cup {oh.ahdr[a.oidx + 1].id}]

\* main.cpp 484-507
AssetDeleted(r, oh, a, opt) ==
    LET oahdr == oh.ahdr[a.oidx + 1]
        oadbg == oh.adbg[a.oidx + 1]
        r1 == IF opt.detailedAssets
              THEN LET x1 == [r EXCEPT !.countsEnabled = FALSE]
                       x2 == Deletions(x1, "assetDeletions", AssetLines(oahdr, oadbg), oahdr.id)
                   IN  [x2 EXCEPT !.deletionCount = @ + 1, !.countsEnabled = TRUE]
              ELSE DELETION(r, "assetDeletions", "  %s", oadbg.name, oahdr.id)
    IN  [r1 EXCEPT !.numAssetsDeleted = @ + 1, !.deletedAssets = @ \cup {oahdr.id}]

\* main.cpp 530-572: the detailed report of an asset of both archives.
AssetDetailed(r, oahdr, mahdr, oadbg, madbg, dataChanged, opt) ==
    LET id == oahdr.id
        N(x, c, vec, fmt, l, rr) == ModIf(x, c, vec, fmt, Num(l), Num(rr), id)
        x0 == [r EXCEPT !.v["ahdrMods"] = << >>, !.v["adbgMods"] = << >>,
                        !.countsEnabled = FALSE]
        x1 == MODIFICATION(x0, "ahdrMods", "  AHDR (%s)", oadbg.name, madbg.name, id)
        x2 == N(x1, oahdr.id # mahdr.id, "ahdrMods", "    id: 0x%08X", oahdr.id, mahdr.id)
        x3 == N(x2, oahdr.type # mahdr.type, "ahdrMods", "    type: 0x%08X",
                oahdr.type, mahdr.type)
        x4 == N(x3, oahdr.offset # mahdr.offset /\ opt.diffOffsets, "ahdrMods",
                "    offset: %d", oahdr.offset, mahdr.offset)
        x5 == N(x4, oahdr.size # mahdr.size, "ahdrMods", "    size: %d",
                oahdr.size, mahdr.size)
        x6 == N(x5, oahdr.plus # mahdr.plus /\ opt.diffPluses, "ahdrMods",
                "    plus: %d", oahdr.plus, mahdr.plus)
        x7 == N(x6, oahdr.flags # mahdr.flags, "ahdrMods", "    flags: 0x%08X",
                oahdr.flags, mahdr.flags)
        x8 == ModIf(x7, dataChanged, "ahdrMods", "    data changed", << >>, << >>, id)
        y0 == MODIFICATION(x8, "adbgMods", "    ADBG", << >>, << >>, id)
        y1 == N(y0, oadbg.align # madbg.align, "adbgMods", "      align: %d",
                oadbg.align, madbg.align)
        y2 == ModIf(y1, oadbg.name # madbg.name, "adbgMods", "      name: %s",
                    oadbg.name, madbg.name, id)
        y3 == ModIf(y2, oadbg.filename # madbg.filename, "adbgMods", "      filename: %s",
                    oadbg.filename, madbg.filename, id)
        y4 == N(y3, oadbg.checksum # madbg.checksum, "adbgMods", "      checksum: 0x%08X",
                oadbg.checksum, madbg.checksum)
        z  == IF Len(y4.v["ahdrMods"]) > 1 \/ Len(y4.v["adbgMods"]) > 1
              THEN [y4 EXCEPT
                      !.v["assetModifications"] =
                          @ \o y4.v["ahdrMods"]
                            \o (IF Len(y4.v["adbgMods"]) > 1 THEN y4.v["adbgMods"] ELSE << >>),
                      !.modificationCount = @ + 1,
                      !.numAssetsModified = @ + 1]
              ELSE y4
    IN  [z EXCEPT !.countsEnabled = TRUE, !.v["ahdrMods"] = << >>, !.v["adbgMods"] = << >>]

\* A summary report that does not look at dataChanged.
AssetSummaryNoData(r, oahdr, mahdr, oadbg, madbg, dataChanged, opt) ==
    IF \/ oahdr.id # mahdr.id
       \/ oahdr.type # mahdr.type
       \/ (oahdr.offset # mahdr.offset /\ opt.diffOffsets)
       \/ oahdr.size # mahdr.size
       \/ (oahdr.plus # mahdr.plus /\ opt.diffPluses)
       \/ oahdr.flags # mahdr.flags
       \/ oadbg.align # madbg.align
       \/ oadbg.name # madbg.name
       \/ oadbg.filename # madbg.filename
       \/ oadbg.checksum # madbg.checksum
    THEN [MODIFICATION(r, "assetModifications", "  %s", oadbg.name, madbg.name, oahdr.id)
             EXCEPT !.numAssetsModified = @ + 1]
    ELSE r

\* main.cpp 573-588: the summary report of an asset of both archives.
AssetSummary(r, oahdr, mahdr, oadbg, madbg, dataChanged, opt) ==
    IF \/ oahdr.id # mahdr.id
       \/ oahdr.type # mahdr.type
       \/ (oahdr.offset # mahdr.offset /\ opt.diffOffsets)
       \/ oahdr.size # mahdr.size
       \/ (oahdr.plus # mahdr.plus /\ opt.diffPluses)
       \/ oahdr.flags # mahdr.flags
       \/ oadbg.align # madbg.align
       \/ oadbg.name # madbg.name
       \/ oadbg.filename # madbg.filename
       \/ oadbg.checksum # madbg.checksum
       \/ dataChanged
    THEN [MODIFICATION(r, "assetModifications", "  %s", oadbg.name, madbg.name, oahdr.id)
             EXCEPT !.numAssetsModified = @ + 1]
    ELSE r

\* main.cpp 508-589
AssetBoth(r, oh, mh, a, opt, ub) ==
    LET oahdr == oh.ahdr[a.oidx + 1]
        mahdr == mh.ahdr[a.midx + 1]
        oadbg == oh.adbg[a.oidx + 1]
        madbg == mh.adbg[a.midx + 1]
        dc == DataChanged(oh, mh, oahdr, mahdr, oadbg, madbg, opt, ub)
    IN  IF dc.crash THEN [r EXCEPT !.crashed = TRUE]
        ELSE LET r1 == [r EXCEPT !.dataChanged = Put(@, oahdr.id, dc.v)]
             IN  IF opt.detailedAssets
                 THEN AssetDetailed(r1, oahdr, mahdr, oadbg, madbg, dc.v, opt)
                 ELSE AssetSummary(r1, oahdr, mahdr, oadbg, madbg, dc.v, opt)

\* main.cpp 457-590: the body of the asset loop for the entry a of ahdrIndices.
AssetStep(r, oh, mh, a, opt, ub) ==
    IF a.oidx = -1 THEN AssetAdded(r, mh, a, opt)
    ELSE IF a.midx = -1 THEN AssetDeleted(r, oh, a, opt)
    ELSE AssetBoth(r, oh, mh, a, opt, ub)

\* ------------------------------------------------------------- layer diff
\* hip.adbg[idx].name, or the end of the process.  adbg has assetCount
\* elements; any other idx (the -1 of an id the archive's asset table does
\* not hold) reads outside it.
NameAt(hip, idx, ub) ==
    IF 0 <= idx /\ idx < hip.pcnt.assetCount
    THEN [crash |-> FALSE, name |-> hip.adbg[idx + 1].name]
    ELSE [crash |-> ub = 0, name |-> IF ub = 1 THEN << >> ELSE <<63>>]

\* main.cpp 602-607: the members of an added layer from the i-th on.
RECURSIVE AddedMembers(_, _, _, _, _, _)
AddedMembers(r, mh, aidx, mlhdr, i, ub) ==
    IF i >= mlhdr.assetCount THEN r
    ELSE LET id == mlhdr.assetIDs[i + 1]
         IN  IF id \in r.addedAssets
             THEN AddedMembers(r, mh, aidx, mlhdr, i + 1, ub)
             ELSE LET idx == Get(aidx, id, NoIndex).midx
                      n == NameAt(mh, idx, ub)
                      r0 == [r EXCEPT !.lookups = @ \cup {<<"m", id, idx>>}]
                  IN  IF n.crash THEN [r0 EXCEPT !.crashed = TRUE]
                      ELSE AddedMembers(ADDITION(r0, "layerAdditions", "    %s", n.name, id),
                                        mh, aidx, mlhdr, i + 1, ub)

\* main.cpp 620-625: the members of a deleted layer from the i-th on.
RECURSIVE DeletedMembers(_, _, _, _, _, _)
DeletedMembers(r, oh, aidx, olhdr, i, ub) ==
    IF i >= olhdr.assetCount THEN r
    ELSE LET id == olhdr.assetIDs[i + 1]
         IN  IF id \in r.deletedAssets
             THEN DeletedMembers(r, oh, aidx, olhdr, i + 1, ub)
             ELSE LET idx == Get(aidx, id, NoIndex).oidx
                      n == NameAt(oh, idx, ub)
                      r0 == [r EXCEPT !.lookups = @ \cup {<<"o", id, idx>>}]
                  IN  IF n.crash THEN [r0 EXCEPT !.crashed = TRUE]
                      ELSE DeletedMembers(DELETION(r0, "layerDeletions", "    %s", n.name, id),
                                          oh, aidx, olhdr, i + 1, ub)

\* main.cpp 596-612
LayerAdded(r, mh, aidx, l, ub) ==
    LET mlhdr == mh.lhdr[l.midx + 1]
        mldbg == mh.ldbg[l.midx + 1]
        x0 == [r EXCEPT !.countsEnabled = FALSE]
        x1 == ADDITION(x0, "layerAdditions", "  LHDR (%d)", Num(mlhdr.type), 0)
        x2 == ADDITION(x1, "layerAdditions", "    type: %d", Num(mlhdr.type), 0)
        x3 == AddedMembers(x2, mh, aidx, mlhdr, 0, ub)
        x4 == ADDITION(x3, "layerAdditions", "    LDBG", << >>, 0)
        x5 == ADDITION(x4, "layerAdditions", "      ldbg: %d", Num(mldbg.ldbg), 0)
    IN  IF x3.crashed THEN x3
        ELSE [x5 EXCEPT !.additionCount = @ + 1, !.countsEnabled = TRUE,
                        !.numLayersAdded = @ + 1]

\* main.cpp 613-630
LayerDeleted(r, oh, aidx, l, ub) ==
    LET olhdr == oh.lhdr[l.oidx + 1]
        oldbg == oh.ldbg[l.oidx + 1]
        x0 == [r EXCEPT !.countsEnabled = FALSE]
        x1 == DELETION(x0, "layerDeletions", "  LHDR (%d)", Num(olhdr.type), 0)
        x2 == DELETION(x1, "layerDeletions", "    type: %d", Num(olhdr.type), 0)
        x3 == DeletedMembers(x2, oh, aidx, olhdr, 0, ub)
        x4 == DELETION(x3, "layerDeletions", "    LDBG", << >>, 0)
        x5 == DELETION(x4, "layerDeletions", "      ldbg: %d", Num(oldbg.ldbg), 0)
    IN  IF x3.crashed THEN x3
        ELSE [x5 EXCEPT !.deletionCount = @ + 1, !.countsEnabled = TRUE,
                        !.numLayersDeleted = @ + 1]

\* main.cpp 649-666: the membership loop over the ids (the keys of
\* ahdrLHDRIndices still to visit, ascending) for the pair l.
RECURSIVE MembershipLoop(_, _, _, _, _, _, _, _)
MembershipLoop(r, oh, mh, aidx, alidx, l, ids, ub) ==
    IF Len(ids) = 0 THEN r
    ELSE LET id   == Head(ids)
             a    == alidx[id]
             next(x) == MembershipLoop(x, oh, mh, aidx, alidx,
                                       l, Tail(ids), ub)
         IN  IF a.oidx = l.oidx \/ a.midx = l.midx
             THEN IF a.oidx # l.oidx
                  THEN IF id \notin r.addedAssets
                       THEN LET idx == Get(aidx, id, NoIndex).midx
                                n == NameAt(mh, idx, ub)
                                r0 == [r EXCEPT !.lookups = @ \cup {<<"m", id, idx>>}]
                            IN  IF n.crash THEN [r0 EXCEPT !.crashed = TRUE]
                                ELSE next([ADDITION(r0, "lhdrMods", "    \"%s\"", n.name, id)
                                              EXCEPT !.additionCount = @ + 1])
                       ELSE next(r)
                  ELSE IF a.midx # l.midx
                  THEN IF id \notin r.deletedAssets
                       THEN LET idx == Get(aidx, id, NoIndex).oidx
                                n == NameAt(oh, idx, ub)
                                r0 == [r EXCEPT !.lookups = @ \cup {<<"o", id, idx>>}]
                            IN  IF n.crash THEN [r0 EXCEPT !.crashed = TRUE]
                                ELSE next([DELETION(r0, "lhdrMods", "    \"%s\"", n.name, id)
                                              EXCEPT !.deletionCount = @ + 1])
                       ELSE next(r)
                  ELSE next(r)
             ELSE next(r)

\* main.cpp 631-681
LayerModified(r, oh, mh, aidx, alidx, l, ub) ==
    LET olhdr == oh.lhdr[l.oidx + 1]
        oldbg == oh.ldbg[l.oidx + 1]
        mlhdr == mh.lhdr[l.midx + 1]
        mldbg == mh.ldbg[l.midx + 1]
        x0 == [r EXCEPT !.v["lhdrMods"] = << >>, !.v["ldbgMods"] = << >>,
                        !.countsEnabled = FALSE]
        x1 == MODIFICATION(x0, "lhdrMods", "  LHDR (%d)", Num(olhdr.type), Num(mlhdr.type), 0)
        x2 == ModIf(x1, olhdr.type # mlhdr.type, "lhdrMods", "    type: %d",
                    Num(olhdr.type), Num(mlhdr.type), 0)
        x3 == MembershipLoop(x2, oh, mh, aidx, alidx, l,
                             SetToSeq(DOMAIN alidx), ub)
        x4 == MODIFICATION(x3, "ldbgMods", "    LDBG", << >>, << >>, 0)
        x5 == ModIf(x4, oldbg.ldbg # mldbg.ldbg, "ldbgMods", "      ldbg: %d",
                    Num(oldbg.ldbg), Num(mldbg.ldbg), 0)
        x6 == IF Len(x5.v["lhdrMods"]) > 1 \/ Len(x5.v["ldbgMods"]) > 1
              THEN [x5 EXCEPT
                      !.v["layerModifications"] =
                          @ \o x5.v["lhdrMods"]
                            \o (IF Len(x5.v["ldbgMods"]) > 1 THEN x5.v["ldbgMods"] ELSE << >>),
                      !.modificationCount = @ + 1,
                      !.numLayersModified = @ + 1]
              ELSE x5
    IN  IF x3.crashed THEN x3
        ELSE [x6 EXCEPT !.countsEnabled = TRUE, !.v["lhdrMods"] = << >>,
                        !.v["ldbgMods"] = << >>]

\* What follows the first n entries of a vector.
After(vec, n) == SubSeq(vec, n + 1, Len(vec))

\* main.cpp 594-682: the body of the layer loop for the pair l, and its
\* entry in the ghost layerLog.
LayerStep(r, oh, mh, aidx, alidx, l, ub) ==
    LET r1 == IF l.oidx = -1 THEN LayerAdded(r, mh, aidx, l, ub)
              ELSE IF l.midx = -1 THEN LayerDeleted(r, oh, aidx, l, ub)
              ELSE LayerModified(r, oh, mh, aidx, alidx, l, ub)
    IN  [r1 EXCEPT !.layerLog = Append(@,
            [l |-> l,
             additions |-> After(r1.v["layerAdditions"], Len(r.v["layerAdditions"])),
             deletions |-> After(r1.v["layerDeletions"], Len(r.v["layerDeletions"])),
             modifications |-> After(r1.v["layerModifications"],
                                     Len(r.v["layerModifications"])),
             dAdd |-> r1.additionCount - r.additionCount,
             dDel |-> r1.deletionCount - r.deletionCount,
             dMod |-> r1.modificationCount - r.modificationCount])]

\* ------------------------------------------------------------ the whole diff
\* main.cpp 457-590: the asset loop over the keys ids of ahdrIndices.
RECURSIVE AssetLoop(_, _, _, _, _, _, _)
AssetLoop(r, oh, mh, aidx, ids, opt, ub) ==
    IF Len(ids) = 0 \/ r.crashed THEN r
    ELSE AssetLoop(AssetStep(r, oh, mh, aidx[Head(ids)], opt, ub),
                   oh, mh, aidx, Tail(ids), opt, ub)

\* main.cpp 592-684: the layer loop over the pairs of lhdrIndices.
RECURSIVE LayerLoop(_, _, _, _, _, _, _)
LayerLoop(r, oh, mh, aidx, alidx, pairs, ub) ==
    IF Len(pairs) = 0 \/ r.crashed THEN r
    ELSE LayerLoop(LayerStep(r, oh, mh, aidx, alidx, Head(pairs), ub),
                   oh, mh, aidx, alidx, Tail(pairs), ub)

\* main.cpp 334-684 for the archives oh, mh as read() left them: the report
\* of one run of the program, the unordered_map iterated in the order
\* `order` of the layer types and every read outside an object resolved
\* as ub.
RunDiff(oh, mh, opt, order, ub) ==
    LET o1 == [oh EXCEPT !.pcrt = hackPCRTString(@)]
        m1 == [mh EXCEPT !.pcrt = hackPCRTString(@)]
        ai == AhdrIndices(o1, m1)
        li == IF opt.assetDiffsOnly THEN << >> ELSE LhdrIndices(o1, m1)
        al == IF opt.assetDiffsOnly THEN << >> ELSE AhdrLHDRIndices(o1, m1)
        r1 == IF opt.assetDiffsOnly THEN ZeroReport ELSE HeaderDiff(ZeroReport, o1, m1)
        r2 == AssetLoop(r1, o1, m1, ai, SetToSeq(DOMAIN ai), opt, ub)
    IN  LayerLoop(r2, o1, m1, ai, al, LayerPairs(li, order), ub)

\* ------------------------------------------------------------------ state
VARIABLES
    ohip, mhip,        \* Hip ohip, mhip
    opts,              \* the option flags of main()
    pc,                \* where main() is
    ahdrIndices, lhdrIndices, ahdrLHDRIndices,
    typeOrder,         \* the iteration order of the unordered_map lhdrIndices
    ait,               \* asset loop: the keys of ahdrIndices still to visit
    lit,               \* layer loop: the pairs still to visit
    rep,               \* the diff vectors and counters
    loaded,            \* ghost: ohip and mhip as read() left them
    rd                 \* the reader (SpecRead)

diffVars ==
    <<ohip, mhip, opts, pc, ahdrIndices, lhdrIndices, ahdrLHDRIndices, typeOrder,
      ait, lit, rep, loaded>>

vars == <<diffVars, rd>>

\* ------------------------------------------------------- the loaded archives
Options(A, D, C, O, P) ==
    {[assetDiffsOnly |-> a, detailedAssets |-> d, ignoreDataIfChksumMatch |-> c,
      diffOffsets |-> o, diffPluses |-> p] : a \in A, d \in D, c \in C, o \in O, p \in P}

Subsets(S, n) == {T \in SUBSET S : Cardinality(T) <= n}

\* The header of an archive: the fields named in T are 1, the others 0.
HeaderFields ==
    {"subVersion", "clientVersion", "compatVersion", "flags", "maxAssetSize",
     "maxLayerSize", "maxXformAssetSize", "pcrtTime", "pmodTime", "ainf"}

B(T, f) == IF f \in T THEN 1 ELSE 0

WithHeader(hip, T) ==
    [hip EXCEPT !.pver = [subVersion |-> B(T, "subVersion"),
                          clientVersion |-> B(T, "clientVersion"),
                          compatVersion |-> B(T, "compatVersion")],
                !.pflg = [flags |-> B(T, "flags")],
                !.pcnt.maxAssetSize = B(T, "maxAssetSize"),
                !.pcnt.maxLayerSize = B(T, "maxLayerSize"),
                !.pcnt.maxXformAssetSize = B(T, "maxXformAssetSize"),
                !.pcrt.time = B(T, "pcrtTime"),
                !.pmod = [time |-> B(T, "pmodTime")],
                !.ainf = [ainf |-> B(T, "ainf")]]

\* An asset of the archive: the fields named in T differ from the base
\* values.  The payload buffer has two bytes and starts at file offset 8, so
\* an asset at offset 9 of size 2 ends outside it; "null" is an asset whose
\* data pointer was never set (no DPAK chunk was read).
AssetFields ==
    {"type", "offset", "size", "plus", "flags", "align", "name", "filename",
     "checksum", "null"}

AssetName(id) == <<96 + id>>

MkAHDR(id, T) ==
    AHDR(id, 1 + B(T, "type"), 8 + B(T, "offset"), 1 + B(T, "size"), B(T, "plus"),
         B(T, "flags"), IF "null" \in T THEN NullPtr ELSE Ptr(B(T, "offset")))

MkADBG(id, T) ==
    ADBG(B(T, "align"), IF "name" \in T THEN <<64>> ELSE AssetName(id),
         IF "filename" \in T THEN <<70>> ELSE <<102>>, 5 + B(T, "checksum"))

\* An archive of the assets as (sequence of <<id, T>>), the layers ls
\* (sequence of <<type, assetIDs, ldbg>>) and the payload bytes data.
MkHip(as, ls, data) ==
    [ZeroHip EXCEPT
        !.pcnt.assetCount = Len(as),
        !.pcnt.layerCount = Len(ls),
        !.ahdr = [i \in 1..Len(as) |-> MkAHDR(as[i][1], as[i][2])],
        !.adbg = [i \in 1..Len(as) |-> MkADBG(as[i][1], as[i][2])],
        !.lhdr = [i \in 1..Len(ls) |-> LHDR(ls[i][1], ls[i][2])],
        !.ldbg = [i \in 1..Len(ls) |-> LDBG(ls[i][3])],
        !.dpak.data = data]

Case(o, m, opt) == [o |-> o, m |-> m, opt |-> opt]

\* X against the base, the base against X, X against a copy of X.
Around(base, X, opt) == {Case(base, X, opt), Case(X, base, opt), Case(X, X, opt)}

\* Header family: the numeric header fields.
HeaderCases ==
    UNION {Around(WithHeader(MkHip(<< >>, << >>, << >>), {}),
                  WithHeader(MkHip(<< >>, << >>, << >>), T), opt) :
              T \in Subsets(HeaderFields, MaxFieldDiffs),
              opt \in Options(BOOLEAN, {FALSE}, {FALSE}, {FALSE}, {FALSE})}

\* Header family: the creation record.  167772160 = 0x0A000000.
PcrtRecords ==
    {[time |-> t, string |-> str] :
        t \in {0, 167772160},
        str \in {<< >>, <<NL>>, <<97>>, <<97, NL>>, <<98, NL>>, <<97, NL, NL>>}}

PcrtCases ==
    {Case([ZeroHip EXCEPT !.pcrt = x], [ZeroHip EXCEPT !.pcrt = y], opt) :
        x \in PcrtRecords, y \in PcrtRecords,
        opt \in Options(BOOLEAN, {FALSE}, {FALSE}, {FALSE}, {FALSE})}

\* Header family: the platform record.
PlatStrings == UNION {[1..n -> {<<97>>, <<98>>}] : n \in 0..MaxPlatStrings}

PlatRecords ==
    {ZeroHip.plat}
    \cup {[exists |-> TRUE, id |-> i, stringCount |-> Len(ss), strings |-> ss] :
             i \in {1, 2}, ss \in PlatStrings}

PlatCases ==
    {Case([ZeroHip EXCEPT !.plat = x], [ZeroHip EXCEPT !.plat = y], opt) :
        x \in PlatRecords, y \in PlatRecords,
        opt \in Options(BOOLEAN, {FALSE}, {FALSE}, {FALSE}, {FALSE})}

\* Field family: one asset, its fields.
FieldCases ==
    UNION {Around(MkHip(<< <<1, {}>> >>, << >>, <<7, 7>>),
                  MkHip(<< <<1, T>> >>, << >>, <<7, 7>>), opt) :
              T \in Subsets(AssetFields, MaxFieldDiffs),
              opt \in Options({TRUE}, BOOLEAN, BOOLEAN, BOOLEAN, BOOLEAN)}
    \cup {Case(MkHip(<< <<1, {}>> >>, << >>, <<7, 7>>),
               MkHip(<< <<1, T>> >>, << >>, <<8, 7>>), opt) :
              T \in Subsets(AssetFields, MaxFieldDiffs - 1),
              opt \in Options({TRUE}, BOOLEAN, BOOLEAN, {FALSE}, {FALSE})}

\* Asset family: the asset tables, ids repeated or not; the assets of a
\* table all have the checksum 5 + c.
AssetTables == UNION {[1..n -> 1..MaxId] : n \in 0..MaxAssets}

TableHip(ids, c) ==
    MkHip([i \in 1..Len(ids) |-> <<ids[i], IF c = 1 THEN {"checksum"} ELSE {}>>],
          << >>, <<7, 7>>)

AssetCases ==
    {Case(TableHip(x, 0), TableHip(y, c), opt) :
        x \in AssetTables, y \in AssetTables, c \in {0, 1},
        opt \in Options(BOOLEAN, BOOLEAN, {FALSE}, {FALSE}, {FALSE})}

\* Layer family: the asset tables <<1, 2>> and <<2, 3>> (or <<1, 2>> on
\* both sides), at most MaxLayers
\* layers of the types 0 and 1 on each side, listing at most MaxMembers ids
\* in all (readLTOC keeps the listed ids in a buffer of assetCount ids).
MemberLists ==
    {s \in UNION {[1..n -> 1..MaxId] : n \in 0..MaxMembers} :
        \A i, j \in 1..Len(s) : i < j => s[i] < s[j]}

RECURSIVE SumLen(_)
SumLen(ss) == IF Len(ss) = 0 THEN 0 ELSE Len(Head(ss)) + SumLen(Tail(ss))

LayerTables(D) ==
    {ls \in UNION {[1..n -> ({0, 1} \X MemberLists \X {0})] : n \in 0..MaxLayers} :
        SumLen([i \in 1..Len(ls) |-> ls[i][2]]) <= MaxMembers}
    \cup {<< <<t, s, d>> >> : t \in {0, 1}, s \in MemberLists, d \in D}

\* The layer tables whose layers all have the type 0.
OneTypeTables == {ls \in LayerTables({0}) : \A i \in 1..Len(ls) : ls[i][1] = 0}

LayerHip(ids, ls) ==
    MkHip([i \in 1..Len(ids) |-> <<ids[i], {}>>], ls, <<7, 7>>)

LayerCases ==
    {Case(LayerHip(<<1, 2>>, x), LayerHip(<<2, 3>>, y), opt) :
        x \in OneTypeTables, y \in LayerTables({0, 1}),
        opt \in Options({FALSE}, {FALSE}, {FALSE}, {FALSE}, {FALSE})}
    \cup {Case(LayerHip(<<1, 2>>, x), LayerHip(<<1, 2>>, x), opt) :
        x \in LayerTables({0}),
        opt \in Options(BOOLEAN, BOOLEAN, {FALSE}, {FALSE}, {FALSE})}
    \cup {Case(LayerHip(<<1, 2>>, x), LayerHip(<<1, 2>>, y), opt) :
        x \in OneTypeTables, y \in OneTypeTables,
        opt \in Options({FALSE}, {FALSE}, {FALSE}, {FALSE}, {FALSE})}

\* Layers of two types without members, in every order, on both sides.
TypeCases ==
    LET TypeTables == UNION {[1..n -> ({0, 1} \X {<< >>} \X {0})] : n \in 0..MaxLayers}
    IN  {Case(LayerHip(<<1, 2>>, x), LayerHip(<<1, 2>>, y), opt) :
            x \in TypeTables, y \in TypeTables,
            opt \in Options({FALSE}, {FALSE}, {FALSE}, {FALSE}, {FALSE})}

Cases == HeaderCases \cup PcrtCases \cup PlatCases \cup FieldCases \cup AssetCases
         \cup LayerCases \cup TypeCases

\* ------------------------------------------------------------------ main()
NoReader == [pc |-> "off"]

\* main() after the two read() calls returned true (main.cpp 323-332).
Init ==
    /\ \E c \in Cases :
          /\ ohip = c.o
          /\ mhip = c.m
          /\ opts = c.opt
          /\ loaded = [o |-> c.o, m |-> c.m]
    /\ pc = "loaded"
    /\ ahdrIndices = << >>
    /\ lhdrIndices = << >>
    /\ ahdrLHDRIndices = << >>
    /\ typeOrder = << >>
    /\ ait = << >>
    /\ lit = << >>
    /\ rep = ZeroReport
    /\ rd = NoReader

\* main.cpp 334-335
HackPCRT ==
    /\ pc = "loaded"
    /\ ohip' = [ohip EXCEPT !.pcrt = hackPCRTString(@)]
    /\ mhip' = [mhip EXCEPT !.pcrt = hackPCRTString(@)]
    /\ pc' = "hacked"
    /\ UNCHANGED <<opts, ahdrIndices, lhdrIndices, ahdrLHDRIndices, typeOrder, ait, lit,
                   rep, loaded, rd>>

\* main.cpp 343-393
BuildIndices ==
    /\ pc = "hacked"
    /\ ahdrIndices' = AhdrIndices(ohip, mhip)
    /\ lhdrIndices' = IF opts.assetDiffsOnly THEN << >> ELSE LhdrIndices(ohip, mhip)
    /\ ahdrLHDRIndices' = IF opts.assetDiffsOnly THEN << >> ELSE AhdrLHDRIndices(ohip, mhip)
    /\ typeOrder' \in Perms(DOMAIN lhdrIndices')
    /\ ait' = SetToSeq(DOMAIN ahdrIndices')
    /\ lit' = LayerPairs(lhdrIndices', typeOrder')
    /\ pc' = "indexed"
    /\ UNCHANGED <<ohip, mhip, opts, rep, loaded, rd>>

\* main.cpp 396-455
DiffHeader ==
    /\ pc = "indexed"
    /\ rep' = IF opts.assetDiffsOnly THEN rep ELSE HeaderDiff(rep, ohip, mhip)
    /\ pc' = "diff"
    /\ UNCHANGED <<ohip, mhip, opts, ahdrIndices, lhdrIndices, ahdrLHDRIndices, typeOrder,
                   ait, lit, loaded, rd>>

\* main.cpp 457-590: one pass of the asset loop.
DiffAsset ==
    /\ pc = "diff"
    /\ Len(ait) > 0
    /\ \E ub \in UBOutcomes :
          rep' = AssetStep(rep, ohip, mhip, ahdrIndices[Head(ait)], opts, ub)
    /\ ait' = Tail(ait)
    /\ pc' = IF rep'.crashed THEN "crashed" ELSE pc
    /\ UNCHANGED <<ohip, mhip, opts, ahdrIndices, lhdrIndices, ahdrLHDRIndices, typeOrder,
                   lit, loaded, rd>>

\* main.cpp 592-684: one pass of the layer loop.
DiffLayer ==
    /\ pc = "diff"
    /\ Len(ait) = 0
    /\ Len(lit) > 0
    /\ \E ub \in UBOutcomes :
          rep' = LayerStep(rep, ohip, mhip, ahdrIndices, ahdrLHDRIndices, Head(lit), ub)
    /\ lit' = Tail(lit)
    /\ pc' = IF rep'.crashed THEN "crashed" ELSE pc
    /\ UNCHANGED <<ohip, mhip, opts, ahdrIndices, lhdrIndices, ahdrLHDRIndices, typeOrder,
                   ait, loaded, rd>>

\* main.cpp 686-717: the report is printed.
PrintReport ==
    /\ pc = "diff"
    /\ Len(ait) = 0
    /\ Len(lit) = 0
    /\ pc' = "done"
    /\ UNCHANGED <<ohip, mhip, opts, ahdrIndices, lhdrIndices, ahdrLHDRIndices, typeOrder,
                   ait, lit, rep, loaded, rd>>

Next == HackPCRT \/ BuildIndices \/ DiffHeader \/ DiffAsset \/ DiffLayer \/ PrintReport

Spec == Init /\ [][Next]_vars

\* ================================================================ Hip::read
\* ------------------------------------------------------------------ uint32_t
\* A uint32_t is a pair of 16-bit halves.
U32(hi, lo) == [hi |-> hi, lo |-> lo]

FromNat(n) == U32(n \div 65536, n % 65536)

\* The value of a uint32_t below 2^31.
Val(u) == u.hi * 65536 + u.lo

\* The uint32_t converted to a 32-bit long is negative.
Negative(u) == u.hi >= 32768

AddU32(a, b) ==
    LET lo == a.lo + b.lo
    IN  U32((a.hi + b.hi + lo \div 65536) % 65536, lo % 65536)

\* a - b modulo 2^32
SubU32(a, b) ==
    LET lo == a.lo - b.lo + 65536
    IN  U32((a.hi - b.hi + 65536 + lo \div 65536 - 1) % 65536, lo % 65536)

GeqU32(a, b) == a.hi > b.hi \/ (a.hi = b.hi /\ a.lo >= b.lo)

\* BLKID(a, b, c, d)
BLKID(a, b, c, d) == U32(a * 256 + b, c * 256 + d)

\* The characters of the tags.
TagOf(name) ==
    CASE name = "HIPA" -> BLKID(72, 73, 80, 65) [] name = "PACK" -> BLKID(80, 65, 67, 75)
      [] name = "PVER" -> BLKID(80, 86, 69, 82) [] name = "PFLG" -> BLKID(80, 70, 76, 71)
      [] name = "PCNT" -> BLKID(80, 67, 78, 84) [] name = "PCRT" -> BLKID(80, 67, 82, 84)
      [] name = "PMOD" -> BLKID(80, 77, 79, 68) [] name = "PLAT" -> BLKID(80, 76, 65, 84)
      [] name = "DICT" -> BLKID(68, 73, 67, 84) [] name = "ATOC" -> BLKID(65, 84, 79, 67)
      [] name = "AINF" -> BLKID(65, 73, 78, 70) [] name = "AHDR" -> BLKID(65, 72, 68, 82)
      [] name = "ADBG" -> BLKID(65, 68, 66, 71) [] name = "LTOC" -> BLKID(76, 84, 79, 67)
      [] name = "LINF" -> BLKID(76, 73, 78, 70) [] name = "LHDR" -> BLKID(76, 72, 68, 82)
      [] name = "LDBG" -> BLKID(76, 68, 66, 71) [] name = "STRM" -> BLKID(83, 84, 82, 77)
      [] name = "DHDR" -> BLKID(68, 72, 68, 82) [] name = "DPAK" -> BLKID(68, 80, 65, 75)
      [] name = "XXXX" -> BLKID(88, 88, 88, 88) [] OTHER -> BLKID(0, 0, 0, 0)

TagNames ==
    {"HIPA", "PACK", "PVER", "PFLG", "PCNT", "PCRT", "PMOD", "PLAT", "DICT", "ATOC",
     "AINF", "AHDR", "ADBG", "LTOC", "LINF", "LHDR", "LDBG", "STRM", "DHDR", "DPAK"}

\* The name of a tag the readers know, "" for any other tag.
NameOf(id) == IF \E n \in TagNames : TagOf(n) = id
              THEN CHOOSE n \in TagNames : TagOf(n) = id
              ELSE ""

\* ---------------------------------------------------------------- the stream
\* readLong: four bytes at pos, big-endian.  ok is false when fewer than
\* four bytes are left; fread_s has then consumed what there was.
readLong(file, pos) ==
    IF pos + 4 <= Len(file)
    THEN [ok |-> TRUE, pos |-> pos + 4,
          x |-> U32(file[pos + 1] * 256 + file[pos + 2], file[pos + 3] * 256 + file[pos + 4])]
    ELSE [ok |-> FALSE, pos |-> IF pos < Len(file) THEN Len(file) ELSE pos, x |-> U32(0, 0)]

\* The index of the first 0 byte of the file after pos, 0 when there is none.
NulAfter(file, pos) ==
    LET S == {k \in (pos + 1)..Len(file) : file[k] = 0}
    IN  IF S = {} THEN 0 ELSE CHOOSE k \in S : \A j \in S : k <= j

\* readString(file, buf, bufsize) at pos: the characters up to the 0 byte,
\* at most bufsize - 1 of them kept (buf[bufsize - 1] = 0), the rest of a
\* longer string read and dropped, one padding byte skipped when the number
\* of bytes read, the 0 byte included, is odd.
readString(file, pos, bufsize) ==
    LET k == NulAfter(file, pos)
    IN  IF k = 0 THEN [ok |-> FALSE, pos |-> IF pos < Len(file) THEN Len(file) ELSE pos,
                       str |-> << >>]
        ELSE LET len == k - pos
                 all == SubSeq(file, pos + 1, k - 1)
             IN  [ok |-> TRUE,
                  pos |-> k + (len % 2),
                  str |-> IF Len(all) > bufsize - 1 THEN SubSeq(all, 1, bufsize - 1) ELSE all]

\* fseek(file, off, SEEK_SET) with the uint32_t off passed as a long: a
\* negative offset is refused and the position stays.
fseekSet(pos, off) == IF Negative(off) THEN pos ELSE Val(off)

\* --------------------------------------------------------------- the reader
\* A Hip object reading `file`: the stream position pos, the block stack
\* (stackDepth is its length), the archive hip under construction with the
\* numbers of elements its arrays were allocated for (-1: never allocated),
\* and the activation records `frames` of the reader functions (fn at the
\* point `at` of its loop, with its cid and its locals i and assetIDs; n is
\* the lhdr[i].assetCount readLHDR read).  status is
\* "reading", or how read() ended: "ok" (true), "fail" (false), "abort" (an
\* assert failed in a build without NDEBUG), "crash" (a write outside an
\* allocation ended the process).  nAhdr, nLhdr, exits, overflow and
\* wrapped are history: the AHDR / LHDR chunks read, the exitBlock calls
\* made (the first MaxExits of them), whether enterBlock was called with
\* the stack full, and whether an endpos it computed passed 2^32.  The start
\* of a stack entry is history too: where the header of the chunk begins.
MaxExits == 32

Frame(fn, i) == [fn |-> fn, at |-> "enter", cid |-> U32(0, 0), i |-> i, ids |-> 0,
                 n |-> 0, valid |-> FALSE]

Reader(file, ndebug) ==
    [status |-> "reading", file |-> file, ndebug |-> ndebug, pos |-> 0, stack |-> << >>,
     frames |-> <<Frame("read", 0)>>, hip |-> ZeroHip, linf |-> 0, dhdr |-> 0,
     ahdrCap |-> -1, lhdrCap |-> -1, idsCap |-> -1,
     nAhdr |-> 0, nLhdr |-> 0, exits |-> << >>, overflow |-> FALSE, wrapped |-> FALSE]

Top(s) == s.frames[Len(s.frames)]

SetTop(s, f) == [s EXCEPT !.frames[Len(s.frames)] = f]

\* Hip::enterBlock: the reader after the call and the value returned.
enterBlock(s) ==
    IF Len(s.stack) >= HIP_MAX_STACK_DEPTH
    THEN [s |-> IF s.ndebug THEN [s EXCEPT !.overflow = TRUE]
                ELSE [s EXCEPT !.overflow = TRUE, !.status = "abort"],
          cid |-> U32(0, 0)]
    ELSE IF Len(s.stack) > 0 /\ GeqU32(FromNat(s.pos), s.stack[Len(s.stack)].endpos)
    THEN [s |-> s, cid |-> U32(0, 0)]
    ELSE LET id == readLong(s.file, s.pos)
             len == readLong(s.file, id.pos)
         IN  IF ~id.ok THEN [s |-> [s EXCEPT !.pos = id.pos], cid |-> U32(0, 0)]
             ELSE IF ~len.ok THEN [s |-> [s EXCEPT !.pos = len.pos], cid |-> U32(0, 0)]
             ELSE [s |-> [s EXCEPT !.pos = len.pos,
                                   !.stack = Append(@, [id |-> id.x,
                                                        endpos |-> AddU32(FromNat(len.pos), len.x),
                                                        start |-> s.pos]),
                                   !.wrapped = @ \/ ~GeqU32(AddU32(FromNat(len.pos), len.x),
                                                           len.x)],
                   cid |-> id.x]

\* Hip::exitBlock
exitBlock(s) ==
    IF Len(s.stack) <= 0
    THEN IF s.ndebug THEN s ELSE [s EXCEPT !.status = "abort"]
    ELSE LET blk == s.stack[Len(s.stack)]
         IN  [s EXCEPT !.stack = SubSeq(@, 1, Len(@) - 1),
                       !.pos = fseekSet(s.pos, blk.endpos),
                       !.exits = IF Len(@) >= MaxExits THEN @
                                 ELSE Append(@, [id |-> blk.id, endpos |-> blk.endpos,
                                                 start |-> blk.start,
                                                 pos |-> fseekSet(s.pos, blk.endpos),
                                                 depth |-> Len(s.stack) - 1])]

\* n readLong calls in a row: ok, the position after them, the values read.
RECURSIVE Longs(_, _, _)
Longs(file, pos, n) ==
    IF n = 0 THEN [ok |-> TRUE, pos |-> pos, xs |-> << >>]
    ELSE LET x == readLong(file, pos)
         IN  IF ~x.ok THEN [ok |-> FALSE, pos |-> x.pos, xs |-> << >>]
             ELSE LET rest == Longs(file, x.pos, n - 1)
                  IN  [ok |-> rest.ok, pos |-> rest.pos, xs |-> <<Val(x.x)>> \o rest.xs]

\* The result of a reader function that read nothing but the stream.
Failed(s, pos) == [s EXCEPT !.pos = pos, !.status = "fail"]

\* A write to element i of an array allocated for cap elements.
InArray(i, cap) == 0 <= i /\ i < cap

readPVER(s) ==
    LET x == Longs(s.file, s.pos, 3)
    IN  IF ~x.ok THEN Failed(s, x.pos)
        ELSE [s EXCEPT !.pos = x.pos,
                       !.hip.pver = [subVersion |-> x.xs[1], clientVersion |-> x.xs[2],
                                     compatVersion |-> x.xs[3]]]

readPFLG(s) ==
    LET x == Longs(s.file, s.pos, 1)
    IN  IF ~x.ok THEN Failed(s, x.pos)
        ELSE [s EXCEPT !.pos = x.pos, !.hip.pflg = [flags |-> x.xs[1]]]

readPCNT(s) ==
    LET x == Longs(s.file, s.pos, 5)
    IN  IF ~x.ok THEN Failed(s, x.pos)
        ELSE [s EXCEPT !.pos = x.pos,
                       !.hip.pcnt = [assetCount |-> x.xs[1], layerCount |-> x.xs[2],
                                     maxAssetSize |-> x.xs[3], maxLayerSize |-> x.xs[4],
                                     maxXformAssetSize |-> x.xs[5]]]

readPCRT(s) ==
    LET x == Longs(s.file, s.pos, 1)
        str == readString(s.file, x.pos, HIP_STRING_SIZE)
    IN  IF ~x.ok THEN Failed(s, x.pos)
        ELSE IF ~str.ok THEN Failed(s, str.pos)
        ELSE [s EXCEPT !.pos = str.pos, !.hip.pcrt = [time |-> x.xs[1], string |-> str.str]]

readPMOD(s) ==
    LET x == Longs(s.file, s.pos, 1)
    IN  IF ~x.ok THEN Failed(s, x.pos)
        ELSE [s EXCEPT !.pos = x.pos, !.hip.pmod = [time |-> x.xs[1]]]

\* The loop of readPLAT.
RECURSIVE PlatStringsLoop(_)
PlatStringsLoop(s) ==
    IF GeqU32(FromNat(s.pos), s.stack[Len(s.stack)].endpos) THEN s
    ELSE IF s.hip.plat.stringCount >= HIP_MAX_PLATFORM_STRINGS THEN s
    ELSE LET str == readString(s.file, s.pos, HIP_STRING_SIZE)
             s1 == [s EXCEPT !.hip.plat.stringCount = @ + 1]
         IN  IF ~str.ok THEN Failed(s1, str.pos)
             ELSE PlatStringsLoop([s1 EXCEPT !.pos = str.pos,
                                             !.hip.plat.strings = Append(@, str.str)])

readPLAT(s) ==
    LET x == Longs(s.file, s.pos, 1)
        s1 == [s EXCEPT !.hip.plat.exists = TRUE]
    IN  IF ~x.ok THEN Failed(s1, x.pos)
        ELSE PlatStringsLoop([s1 EXCEPT !.pos = x.pos, !.hip.plat.id = x.xs[1]])

readAINF(s) ==
    LET x == Longs(s.file, s.pos, 1)
    IN  IF ~x.ok THEN Failed(s, x.pos)
        ELSE [s EXCEPT !.pos = x.pos, !.hip.ainf = [ainf |-> x.xs[1]]]

readLINF(s) ==
    LET x == Longs(s.file, s.pos, 1)
    IN  IF ~x.ok THEN Failed(s, x.pos) ELSE [s EXCEPT !.pos = x.pos, !.linf = x.xs[1]]

readDHDR(s) ==
    LET x == Longs(s.file, s.pos, 1)
    IN  IF ~x.ok THEN Failed(s, x.pos) ELSE [s EXCEPT !.pos = x.pos, !.dhdr = x.xs[1]]

\* A write outside the allocation it is aimed at is undefined: the process
\* ends (ub = 0) or goes on, the element written being no element of the
\* array (ub = 1, 2).
Stray(s, ub) == IF ub = 0 THEN [s EXCEPT !.status = "crash"] ELSE s

readADBG(s, i, ub) ==
    LET x == Longs(s.file, s.pos, 1)
        name == readString(s.file, x.pos, HIP_STRING_SIZE)
        filename == readString(s.file, name.pos, HIP_STRING_SIZE)
        y == Longs(s.file, filename.pos, 1)
    IN  IF ~x.ok THEN Failed(s, x.pos)
        ELSE IF ~InArray(i, s.ahdrCap) /\ ub = 0 THEN Stray(s, ub)
        ELSE IF ~name.ok THEN Failed(s, name.pos)
        ELSE IF ~filename.ok THEN Failed(s, filename.pos)
        ELSE IF ~y.ok THEN Failed(s, y.pos)
        ELSE IF ~InArray(i, s.ahdrCap) THEN [s EXCEPT !.pos = y.pos]
        ELSE [s EXCEPT !.pos = y.pos,
                       !.hip.adbg[i + 1] = ADBG(x.xs[1], name.str, filename.str, y.xs[1])]

readLDBG(s, i, ub) ==
    LET x == Longs(s.file, s.pos, 1)
    IN  IF ~x.ok THEN Failed(s, x.pos)
        ELSE IF ~InArray(i, s.lhdrCap) THEN Stray([s EXCEPT !.pos = x.pos], ub)
        ELSE [s EXCEPT !.pos = x.pos, !.hip.ldbg[i + 1] = LDBG(x.xs[1])]

\* Hip::readDPAK.  fseek(file, padAmount, SEEK_CUR); the buffer is the rest
\* of the chunk, and every asset gets its view dpak.data + offset - dataStart.
\* A dataSize of 2^31 or more is more than malloc gives where it fails
\* (assert(dpak.data), or fread to a null pointer) and more than the
\* stream holds where it does not.
readDPAK(s, ub) ==
    LET x == Longs(s.file, s.pos, 1)
        dataStart == x.pos + x.xs[1]
        endpos == s.stack[Len(s.stack)].endpos
        dataSize == SubU32(endpos, FromNat(dataStart))
        n == s.hip.pcnt.assetCount
    IN  IF n = 0 THEN s
        ELSE IF ~x.ok THEN Failed(s, x.pos)
        ELSE IF Negative(dataSize) /\ ub = 0
        THEN [s EXCEPT !.status = IF s.ndebug THEN "crash" ELSE "abort"]
        ELSE IF Negative(dataSize) \/ dataStart + Val(dataSize) > Len(s.file)
        THEN Failed([s EXCEPT !.hip.dpak.padAmount = x.xs[1]],
                    IF dataStart < Len(s.file) THEN Len(s.file) ELSE dataStart)
        ELSE LET s1 == [s EXCEPT !.pos = dataStart + Val(dataSize),
                                 !.hip.dpak = [padAmount |-> x.xs[1],
                                               data |-> SubSeq(s.file, dataStart + 1,
                                                               dataStart + Val(dataSize))]]
             IN  IF n > s.ahdrCap THEN Stray(s1, ub)
                 ELSE [s1 EXCEPT !.hip.ahdr =
                          [i \in 1..Len(s.hip.ahdr) |->
                              IF i <= n
                              THEN [s.hip.ahdr[i] EXCEPT
                                       !.data = Ptr(s.hip.ahdr[i].offset - dataStart)]
                              ELSE s.hip.ahdr[i]]]

\* The tags the loop of a reader function has a case for.
SwitchCases(fn) ==
    CASE fn = "read" -> {"HIPA", "PACK", "DICT", "STRM"}
      [] fn = "PACK" -> {"PVER", "PFLG", "PCNT", "PCRT", "PMOD", "PLAT"}
      [] fn = "DICT" -> {"ATOC", "LTOC"}
      [] fn = "ATOC" -> {"AINF", "AHDR"}
      [] fn = "AHDR" -> {"ADBG"}
      [] fn = "LTOC" -> {"LINF", "LHDR"}
      [] fn = "LHDR" -> {"LDBG"}
      [] fn = "STRM" -> {"DHDR", "DPAK"}

\* The chunks whose reader has a loop of its own.
Containers == {"PACK", "DICT", "ATOC", "AHDR", "LTOC", "LHDR", "STRM"}

\* A reader function without a loop, called for the chunk `name` by the
\* function on top of frames.
Leaf(s, name, ub) ==
    CASE name = "HIPA" -> SetTop(s, [Top(s) EXCEPT !.valid = TRUE])
      [] name = "PVER" -> readPVER(s)
      [] name = "PFLG" -> readPFLG(s)
      [] name = "PCNT" -> readPCNT(s)
      [] name = "PCRT" -> readPCRT(s)
      [] name = "PMOD" -> readPMOD(s)
      [] name = "PLAT" -> readPLAT(s)
      [] name = "AINF" -> readAINF(s)
      [] name = "ADBG" -> readADBG(s, Top(s).i, ub)
      [] name = "LINF" -> readLINF(s)
      [] name = "LDBG" -> readLDBG(s, Top(s).i, ub)
      [] name = "DHDR" -> readDHDR(s)
      [] name = "DPAK" -> readDPAK(s, ub)

ZeroAHDR == AHDR(0, 0, 0, 0, 0, 0, NullPtr)

ZeroADBG == ADBG(0, << >>, << >>, 0)

\* Hip::readDICT before its loop: the arrays are allocated for the counts
\* pcnt holds now, and zeroed.
AllocDICT(s) ==
    [s EXCEPT !.idsCap = s.hip.pcnt.assetCount,
              !.ahdrCap = s.hip.pcnt.assetCount,
              !.lhdrCap = s.hip.pcnt.layerCount,
              !.hip.ahdr = [i \in 1..s.hip.pcnt.assetCount |-> ZeroAHDR],
              !.hip.adbg = [i \in 1..s.hip.pcnt.assetCount |-> ZeroADBG],
              !.hip.lhdr = [i \in 1..s.hip.pcnt.layerCount |-> LHDR(0, << >>)],
              !.hip.ldbg = [i \in 1..s.hip.pcnt.layerCount |-> LDBG(0)]]

\* Hip::readAHDR(i) before its loop.
HeadAHDR(s, i, ub) ==
    LET x == Longs(s.file, s.pos, 6)
    IN  IF ~readLong(s.file, s.pos).ok THEN Failed(s, x.pos)
        ELSE IF ~InArray(i, s.ahdrCap) /\ ub = 0 THEN Stray(s, ub)
        ELSE IF ~x.ok THEN Failed(s, x.pos)
        ELSE IF ~InArray(i, s.ahdrCap) THEN [s EXCEPT !.pos = x.pos]
        ELSE [s EXCEPT !.pos = x.pos,
                       !.hip.ahdr[i + 1] =
                           AHDR(x.xs[1], x.xs[2], x.xs[3], x.xs[4], x.xs[5], x.xs[6],
                                s.hip.ahdr[i + 1].data)]

\* Hip::readLHDR(i, assetIDs) before its loop; ids is assetIDs - layerAssetIDs.
HeadLHDR(s, i, ids, ub) ==
    LET x == Longs(s.file, s.pos, 2)
        n == x.xs[2]
        y == Longs(s.file, x.pos, n)
        \* the ids read before the stream ends
        got == (IF y.ok THEN y.pos ELSE Len(s.file)) - x.pos
    IN  IF ~readLong(s.file, s.pos).ok THEN Failed(s, x.pos)
        ELSE IF ~InArray(i, s.lhdrCap) /\ ub = 0 THEN Stray(s, ub)
        ELSE IF ~x.ok THEN Failed(s, x.pos)
        ELSE IF ids + (got \div 4) > s.idsCap /\ ub = 0 THEN Stray(s, ub)
        ELSE IF ~y.ok THEN Failed(s, y.pos)
        ELSE IF ~InArray(i, s.lhdrCap) THEN [s EXCEPT !.pos = y.pos]
        ELSE [s EXCEPT !.pos = y.pos, !.hip.lhdr[i + 1] = LHDR(x.xs[1], y.xs)]

\* The reader function on top of frames evaluates the condition of its
\* "while (uint32_t cid = enterBlock())".
EnterStep(s) ==
    LET e == enterBlock(s)
    IN  IF e.s.status # "reading" THEN e.s
        ELSE IF e.cid = U32(0, 0) THEN SetTop(e.s, [Top(s) EXCEPT !.at = "end"])
        ELSE SetTop(e.s, [Top(s) EXCEPT !.at = "switch", !.cid = e.cid])

\* switch (cid): no case for the tag.
SkipStep(s) == SetTop(s, [Top(s) EXCEPT !.at = "exit"])

\* switch (cid): the case of a reader function without a loop; read() and
\* every function on the way to it return false when it does.
LeafStep(s, ub) ==
    LET s1 == Leaf(s, NameOf(Top(s).cid), ub)
    IN  IF s1.status # "reading" THEN s1
        ELSE SetTop(s1, [Top(s1) EXCEPT !.at = "exit"])

\* switch (cid): the case of a reader function with a loop, up to the loop.
CallStep(s, ub) ==
    LET name == NameOf(Top(s).cid)
        s1 == CASE name = "DICT" -> AllocDICT(s)
                [] name = "AHDR" -> HeadAHDR(s, Top(s).i, ub)
                [] name = "LHDR" -> HeadLHDR(s, Top(s).i, Top(s).ids, ub)
                [] OTHER -> s
    IN  IF s1.status # "reading" THEN s1
        ELSE [s1 EXCEPT !.frames =
                  Append(@, [Frame(name, Top(s).i) EXCEPT
                                !.n = IF name = "LHDR"
                                      THEN Val(readLong(s.file, s.pos + 4).x) ELSE 0])]

\* The loop of the function on top of frames ended: its asserts, its
\* "return true", and the rest of the caller's case.
ReturnStep(s) ==
    LET f == Top(s)
        pcnt == s.hip.pcnt
        held == CASE f.fn = "ATOC" -> f.i = pcnt.assetCount
                  [] f.fn = "LTOC" -> f.ids = pcnt.assetCount /\ f.i = pcnt.layerCount
                  [] OTHER -> TRUE
        caller == s.frames[Len(s.frames) - 1]
        back == CASE f.fn = "AHDR" -> [caller EXCEPT !.at = "exit", !.i = @ + 1]
                  [] f.fn = "LHDR" ->
                        [caller EXCEPT !.at = "exit", !.i = @ + 1, !.ids = @ + f.n]
                  [] OTHER -> [caller EXCEPT !.at = "exit"]
    IN  IF ~held /\ ~s.ndebug THEN [s EXCEPT !.status = "abort"]
        ELSE IF f.fn = "read" THEN [s EXCEPT !.status = "ok"]
        ELSE [s EXCEPT !.frames = Append(SubSeq(@, 1, Len(@) - 2), back),
                       !.nAhdr = IF f.fn = "AHDR" THEN @ + 1 ELSE @,
                       !.nLhdr = IF f.fn = "LHDR" THEN @ + 1 ELSE @]

\* exitBlock() after the switch, and the "if (!valid) return false" of read().
ExitStep(s) ==
    LET s1 == exitBlock(s)
    IN  IF s1.status # "reading" THEN s1
        ELSE IF Top(s).fn = "read" /\ ~Top(s).valid THEN [s1 EXCEPT !.status = "fail"]
        ELSE SetTop(s1, [Top(s) EXCEPT !.at = "enter"])

\* What the switch of the function on top of frames does with its cid.
Kind(s) ==
    LET name == NameOf(Top(s).cid)
    IN  IF name \notin SwitchCases(Top(s).fn) THEN "skip"
        ELSE IF name \in Containers THEN "call" ELSE "leaf"

\* The next step of read().
Step(s, ub) ==
    CASE Top(s).at = "enter" -> EnterStep(s)
      [] Top(s).at = "end" -> ReturnStep(s)
      [] Top(s).at = "exit" -> ExitStep(s)
      [] Top(s).at = "switch" /\ Kind(s) = "skip" -> SkipStep(s)
      [] Top(s).at = "switch" /\ Kind(s) = "leaf" -> LeafStep(s, ub)
      [] Top(s).at = "switch" /\ Kind(s) = "call" -> CallStep(s, ub)

\* read() from the state s to its end, every stray write resolved as ub.
RECURSIVE Run(_, _)
Run(s, ub) == IF s.status # "reading" THEN s ELSE Run(Step(s, ub), ub)

\* ---------------------------------------------------------------- the files
\* The bytes of a file: readLong's four bytes of a number below 2^31, a
\* chunk, a string with its 0 byte and padding.
Long(n) == <<n \div 16777216, (n \div 65536) % 256, (n \div 256) % 256, n % 256>>

TagBytes(name) ==
    LET t == TagOf(name) IN <<t.hi \div 256, t.hi % 256, t.lo \div 256, t.lo % 256>>

Chunk(name, body) == TagBytes(name) \o Long(Len(body)) \o body

Str(str) == str \o <<0>> \o (IF Len(str) % 2 = 0 THEN <<0>> ELSE << >>)

\* The chunks of an archive.  PACK declares the counts a and l; ATOC holds
\* the AHDR chunks of the ids `as` (asset k has the payload byte at file
\* offset off + k - 1), LTOC the LHDR chunks of the member lists ls; debug
\* says whether the optional chunks are written.
PackChunk(a, l, debug) ==
    Chunk("PACK",
          (IF debug THEN Chunk("PVER", Long(1) \o Long(2) \o Long(3)) \o Chunk("PFLG", Long(4))
           ELSE << >>)
          \o Chunk("PCNT", Long(a) \o Long(l) \o Long(0) \o Long(0) \o Long(0))
          \o (IF debug
              THEN Chunk("PCRT", Long(5) \o Str(<<97, NL>>)) \o Chunk("PMOD", Long(6))
                   \o Chunk("PLAT", Long(7) \o Str(<<97>>) \o Str(<<98, 99>>))
              ELSE << >>))

AhdrChunk(id, off, debug) ==
    Chunk("AHDR",
          Long(id) \o Long(1) \o Long(off) \o Long(1) \o Long(0) \o Long(0)
          \o (IF debug
              THEN Chunk("ADBG", Long(0) \o Str(AssetName(id)) \o Str(<<102>>) \o Long(5))
              ELSE << >>))

LhdrChunk(ids, debug) ==
    Chunk("LHDR",
          Long(0) \o Long(Len(ids)) \o Flatten([k \in 1..Len(ids) |-> Long(ids[k])])
          \o (IF debug THEN Chunk("LDBG", Long(9)) ELSE << >>))

AtocChunk(as, off, debug) ==
    Chunk("ATOC",
          (IF debug THEN Chunk("AINF", Long(8)) ELSE << >>)
          \o Flatten([k \in 1..Len(as) |-> AhdrChunk(as[k], off + k - 1, debug)]))

LtocChunk(ls, debug) ==
    Chunk("LTOC",
          (IF debug THEN Chunk("LINF", Long(8)) ELSE << >>)
          \o Flatten([k \in 1..Len(ls) |-> LhdrChunk(ls[k], debug)]))

StrmChunk(n, debug) ==
    Chunk("STRM",
          (IF debug THEN Chunk("DHDR", Long(8)) ELSE << >>)
          \o Chunk("DPAK", Long(0) \o [k \in 1..n |-> 7]))

\* The top-level chunks of an archive with the parts named in `parts`
\* (HIPA and PACK always): the declared counts a and l, the AHDR chunks of
\* the ids as, the LHDR chunks of the member lists ls.  The payload starts
\* where STRM's DPAK puts it, and the assets' offsets point there.
TopChunks(a, l, as, ls, parts, debug) ==
    LET dict(off) ==
            IF "DICT" \in parts
            THEN <<Chunk("DICT",
                         (IF "ATOC" \in parts THEN AtocChunk(as, off, debug) ELSE << >>)
                         \o (IF "LTOC" \in parts THEN LtocChunk(ls, debug) ELSE << >>))>>
            ELSE << >>
        head(off) == <<Chunk("HIPA", << >>), PackChunk(a, l, debug)>> \o dict(off)
        dataStart == Len(Flatten(head(0))) + 8 + (IF debug THEN 12 ELSE 0) + 8 + 4
    IN  head(dataStart)
        \o (IF "STRM" \in parts THEN <<StrmChunk(Len(as), debug)>> ELSE << >>)

\* A chunk no reader function has a case for: the tag XXXX, or the tag 0.
UnknownChunk(zero, body) ==
    IF zero THEN <<0, 0, 0, 0>> \o Long(Len(body)) \o body ELSE Chunk("XXXX", body)

InsertAt(seq, k, x) == SubSeq(seq, 1, k) \o <<x>> \o SubSeq(seq, k + 1, Len(seq))

\* A file to read: its bytes, and what is known of how it was made: the file
\* without the unknown chunk (ref), and the unknown chunk's tag, its first
\* byte's offset and its declared end.
Input(bytes, ref, unk) == [bytes |-> bytes, ref |-> ref, unk |-> unk]

NoUnknown == [present |-> FALSE, zero |-> FALSE, k |-> 0, start |-> 0, end |-> 0]

Plain(tops) == Input(Flatten(tops), Flatten(tops), NoUnknown)

WithUnknown(tops, k, zero, body) ==
    LET start == Len(Flatten(SubSeq(tops, 1, k)))
    IN  Input(Flatten(InsertAt(tops, k, UnknownChunk(zero, body))), Flatten(tops),
              [present |-> TRUE, zero |-> zero, k |-> k, start |-> start,
               end |-> start + 8 + Len(body)])

MaxDeclared == 2

FileIds == {<< >>, <<1>>, <<1, 2>>}

FileLayers == {<< >>, << << >> >>, << <<1>> >>, << <<1, 2>> >>, << <<1>>, <<2>> >>}

AllParts == {"DICT", "ATOC", "LTOC", "STRM"}

\* Count family: the declared counts against the chunks written, with parts
\* of the dictionary missing.
CountInputs ==
    {Plain(TopChunks(a, l, as, ls, parts, debug)) :
        a \in 0..MaxDeclared, l \in 0..MaxDeclared, as \in FileIds, ls \in FileLayers,
        parts \in {AllParts, {"ATOC", "LTOC", "STRM"}, {"DICT", "LTOC", "STRM"},
                   {"DICT", "ATOC", "STRM"}, {"DICT", "ATOC", "LTOC"}},
        debug \in {FALSE}}

\* Well-formed family: the archives whose counts are the chunks written and
\* whose layers list every asset once.
GoodLayers(as) ==
    {ls \in FileLayers : SumLen(ls) = Len(as) /\ (Len(as) = 0 => ls = << >>)}

GoodTops ==
    UNION {{TopChunks(Len(as), Len(ls), as, ls, AllParts, debug) :
               ls \in GoodLayers(as), debug \in BOOLEAN} : as \in FileIds}

\* Unknown-chunk family: a well-formed archive with an unknown chunk before
\* its k-th top-level chunk.
UnknownInputs ==
    {WithUnknown(tops, k, zero, body) :
        tops \in GoodTops, k \in 0..4, zero \in BOOLEAN, body \in {<< >>, <<1, 2, 3>>}}

\* Malformed family.  Truncated: the first n bytes of the smallest
\* well-formed archive and of one with an asset and a layer, the empty file
\* among them.  Headless: a well-formed archive without its HIPA chunk.
\* Outside: an archive whose last asset lies behind the end of the payload.
\* Deep: HIPA and PACK chunks nested up to MaxNesting deep.  Overlong: a
\* chunk that declares an end behind the end of the chunk it is in.
\* Wrapping: a chunk whose position + length passes 2^32.
MaxNesting == 9

MalformedInputs ==
    LET small == Flatten(TopChunks(0, 0, << >>, << >>, AllParts, FALSE))
        one == Flatten(TopChunks(1, 1, <<1>>, << <<1>> >>, AllParts, FALSE))
        truncated ==
            {Input(SubSeq(f, 1, n), f, NoUnknown) : f \in {small}, n \in 0..Len(small)}
            \cup {Input(SubSeq(f, 1, n), f, NoUnknown) : f \in {one}, n \in 0..Len(one)}
        headless == {Plain(Tail(tops)) : tops \in GoodTops}
        \* the archive with assets whose STRM holds a payload of n bytes
        short(as, n) ==
            SubSeq(TopChunks(Len(as), 1, as, <<as>>, AllParts, FALSE), 1, 3)
            \o <<StrmChunk(n, FALSE)>>
        outside == {Plain(short(<<1>>, 0)), Plain(short(<<1, 2>>, 1))}
        \* n PACK chunks one in another, each beginning with a chunk of tag 0
        nested[n \in 0..MaxNesting] ==
            IF n = 0 THEN << >>
            ELSE Chunk("PACK", UnknownChunk(TRUE, << >>) \o nested[n - 1])
        deep == {Plain(<<Chunk("HIPA", << >>), nested[n]>>) : n \in 1..MaxNesting}
        \* the smallest archive with a PCNT chunk that declares 8 bytes more
        \* than it has, and so ends behind its PACK chunk
        pcnt == Long(0) \o Long(0) \o Long(0) \o Long(0) \o Long(0)
        overlong ==
            {Plain(<<Chunk("HIPA", << >>),
                     TagBytes("PACK") \o Long(8 + Len(pcnt))
                         \o TagBytes("PCNT") \o Long(Len(pcnt) + 8) \o pcnt>>
                   \o SubSeq(TopChunks(0, 0, << >>, << >>, AllParts, FALSE), 3, 4))}
        \* HIPA and a chunk whose length 2^32 - back takes its end back bytes
        \* before the end of its header
        wrapping ==
            {Plain(<<Chunk("HIPA", << >>),
                     TagBytes("XXXX") \o <<255, 255, 255, 256 - back>>,
                     Chunk("PACK", << >>)>>) : back \in {8, 16}}
    IN  truncated \cup headless \cup outside \cup deep \cup overlong \cup wrapping

Inputs ==
    CountInputs \cup {Plain(tops) : tops \in GoodTops} \cup UnknownInputs
    \cup MalformedInputs

\* ------------------------------------------------------ main() reading a file
\* main.cpp 322-326 with the original archive's file open: read() runs on
\* one of the inputs, in a build with or without NDEBUG.
InitRead ==
    /\ \E in \in Inputs, ndebug \in BOOLEAN :
          rd = [Reader(in.bytes, ndebug) EXCEPT !.status = "reading"]
               @@ [ref |-> in.ref, unk |-> in.unk]
    /\ pc = "read"
    /\ ohip = ZeroHip
    /\ mhip = ZeroHip
    /\ opts = [assetDiffsOnly |-> FALSE, detailedAssets |-> FALSE,
               ignoreDataIfChksumMatch |-> FALSE, diffOffsets |-> FALSE,
               diffPluses |-> FALSE]
    /\ loaded = [o |-> ZeroHip, m |-> ZeroHip]
    /\ ahdrIndices = << >>
    /\ lhdrIndices = << >>
    /\ ahdrLHDRIndices = << >>
    /\ typeOrder = << >>
    /\ ait = << >>
    /\ lit = << >>
    /\ rep = ZeroReport

Reading == pc = "read" /\ rd.status = "reading"

EnterBlock ==
    /\ Reading /\ Top(rd).at = "enter"
    /\ rd' = EnterStep(rd)
    /\ UNCHANGED diffVars

SkipChunk ==
    /\ Reading /\ Top(rd).at = "switch" /\ Kind(rd) = "skip"
    /\ rd' = SkipStep(rd)
    /\ UNCHANGED diffVars

ReadLeaf ==
    /\ Reading /\ Top(rd).at = "switch" /\ Kind(rd) = "leaf"
    /\ \E ub \in UBOutcomes : rd' = LeafStep(rd, ub)
    /\ UNCHANGED diffVars

CallReader ==
    /\ Reading /\ Top(rd).at = "switch" /\ Kind(rd) = "call"
    /\ \E ub \in UBOutcomes : rd' = CallStep(rd, ub)
    /\ UNCHANGED diffVars

ReturnReader ==
    /\ Reading /\ Top(rd).at = "end"
    /\ rd' = ReturnStep(rd)
    /\ UNCHANGED diffVars

ExitBlock ==
    /\ Reading /\ Top(rd).at = "exit"
    /\ rd' = ExitStep(rd)
    /\ UNCHANGED diffVars

\* main.cpp 323-326: "if (!ohip.read()) { ...; return 1; }"
ReadReturned ==
    /\ pc = "read" /\ rd.status \in {"ok", "fail"}
    /\ pc' = IF rd.status = "ok" THEN "loaded" ELSE "exit"
    /\ ohip' = IF rd.status = "ok" THEN rd.hip ELSE ohip
    /\ UNCHANGED <<mhip, opts, ahdrIndices, lhdrIndices, ahdrLHDRIndices, typeOrder,
                   ait, lit, rep, loaded, rd>>

NextRead ==
    EnterBlock \/ SkipChunk \/ ReadLeaf \/ CallReader \/ ReturnReader \/ ExitBlock
    \/ ReadReturned

SpecRead == InitRead /\ [][NextRead]_vars

\* ============================================================== properties
AssetIds(hip) == {hip.ahdr[i].id : i \in 1..hip.pcnt.assetCount}

\* Every payload view of the archive lies inside its payload buffer and
\* every id a layer lists is in the asset table: the diff reads nothing
\* outside an object.
InBounds(hip) ==
    /\ \A i \in 1..hip.pcnt.assetCount : Readable(hip, hip.ahdr[i].data, hip.ahdr[i].size)
    /\ LayerMemberIds(hip) \subseteq AssetIds(hip)

Counts(r) == <<r.additionCount, r.deletionCount, r.modificationCount>>

EmptyReport(r) == (\A b \in Buckets : r.v[b] = << >>) /\ Counts(r) = <<0, 0, 0>>

(***************************************************************************)
(* C1  Idempotence: the diff of a loaded archive against an identical copy *)
(* of itself, under every combination of the options, ends with every      *)
(* bucket empty and the three counts 0.                                    *)
(***************************************************************************)
Idempotence == (pc = "done" /\ loaded.o = loaded.m) => EmptyReport(rep)

\* The same for the archives the diff reads inside their objects.
IdempotenceInBounds ==
    (pc \in {"done", "crashed"} /\ loaded.o = loaded.m /\ InBounds(loaded.o))
        => pc = "done" /\ EmptyReport(rep)

IdempotenceInBoundsReached ==
    /\ pc = "done" /\ loaded.o = loaded.m /\ InBounds(loaded.o)
    /\ loaded.o.pcnt.assetCount > 0 /\ loaded.o.pcnt.layerCount > 0

MirrorDiff(e) ==
    Diff(CASE e.type = "Addition" -> "Deletion"
           [] e.type = "Deletion" -> "Addition"
           [] OTHER -> e.type,
         e.right, e.left, e.id)

MirrorBucket(b) ==
    CASE b = "assetAdditions" -> "assetDeletions"
      [] b = "assetDeletions" -> "assetAdditions"
      [] b = "layerAdditions" -> "layerDeletions"
      [] b = "layerDeletions" -> "layerAdditions"
      [] OTHER -> b

\* The report r with original and modified exchanged: what the claim says
\* the diff of the swapped archives is.
Mirror(r) ==
    [v |-> [b \in Buckets |->
               [i \in 1..Len(r.v[MirrorBucket(b)]) |-> MirrorDiff(r.v[MirrorBucket(b)][i])]],
     counts |-> <<r.deletionCount, r.additionCount, r.modificationCount>>,
     crashed |-> r.crashed]

Outcome(r) ==
    [v |-> [b \in Buckets |-> r.v[b]], counts |-> Counts(r), crashed |-> r.crashed]

(***************************************************************************)
(* C2  Symmetry: the diff of (B, A) is the diff of (A, B) with Additions   *)
(* and Deletions exchanged, left and right swapped, additionCount and      *)
(* deletionCount exchanged (the layer types visited in the same order).    *)
(***************************************************************************)
Symmetry ==
    pc = "done" =>
        \A ub \in UBOutcomes :
            Outcome(RunDiff(loaded.m, loaded.o, opts, typeOrder, ub)) = Mirror(rep)

\* The same for the archives the diff reads inside their objects.
SymmetryInBounds ==
    (pc = "done" /\ InBounds(loaded.o) /\ InBounds(loaded.m)) =>
        \A ub \in UBOutcomes :
            Outcome(RunDiff(loaded.m, loaded.o, opts, typeOrder, ub)) = Mirror(rep)

\* The ids of the entries of a vector that are sub-entries of the given type.
IdsIn(vec, type) == {vec[i].id : i \in {j \in 1..Len(vec) : vec[j].type = type}} \ {0}

Reported(r) == IdsIn(r.v["assetAdditions"], "Addition") \cup IdsIn(r.v["assetDeletions"], "Deletion")

(***************************************************************************)
(* C3  Double counting: an asset id reported in the asset-additions or the *)
(* asset-deletions bucket is never a joining or leaving sub-entry of a     *)
(* modified layer, nor a listed member of an added or deleted layer.       *)
(***************************************************************************)
NoDoubleCount ==
    pc = "done" =>
        Reported(rep) \cap
            (IdsIn(rep.v["layerModifications"], "Addition")
             \cup IdsIn(rep.v["layerModifications"], "Deletion")
             \cup IdsIn(rep.v["layerAdditions"], "Addition")
             \cup IdsIn(rep.v["layerDeletions"], "Deletion")) = {}

\* The same for the archives the diff reads inside their objects.
NoDoubleCountInBounds ==
    (InBounds(loaded.o) /\ InBounds(loaded.m)) =>
        Reported(rep) \cap
            (IdsIn(rep.v["layerModifications"], "Addition")
             \cup IdsIn(rep.v["layerModifications"], "Deletion")
             \cup IdsIn(rep.v["layerAdditions"], "Addition")
             \cup IdsIn(rep.v["layerDeletions"], "Deletion")) = {}

\* The ids of the Addition / Deletion entries of all the asset and layer buckets.
AllBuckets(r) ==
    r.v["assetAdditions"] \o r.v["assetDeletions"] \o r.v["assetModifications"]
    \o r.v["layerAdditions"] \o r.v["layerDeletions"] \o r.v["layerModifications"]

InBoth == AssetIds(loaded.o) \cap AssetIds(loaded.m)

\* The layers holding id on the two sides are the two sides of one pair of
\* lhdrIndices.
SameSlot(id) ==
    \E k \in DOMAIN lhdrIndices :
        \E n \in 1..Len(lhdrIndices[k]) : lhdrIndices[k][n] = ahdrLHDRIndices[id]

(***************************************************************************)
(* C4  Asset identity, as stated: for an asset id in the asset tables of   *)
(* both archives the asset and layer buckets never hold both an Addition   *)
(* and a Deletion entry for the id, also when the asset is in different    *)
(* layer slots on the two sides.                                           *)
(***************************************************************************)
AssetIdentity ==
    pc = "done" =>
        \A id \in InBoth :
            ~(id \in IdsIn(AllBuckets(rep), "Addition") /\ id \in IdsIn(AllBuckets(rep), "Deletion"))

(***************************************************************************)
(* C4  Asset identity, amended: an asset id in the asset tables of both    *)
(* archives has no entry in the asset-additions and asset-deletions        *)
(* buckets; the layer buckets hold both an Addition and a Deletion for it  *)
(* only when the layers holding it on the two sides are not the two sides  *)
(* of one layer pair (the asset left one slot and joined another).         *)
(***************************************************************************)
AssetIdentityAmended ==
    pc = "done" =>
        \A id \in InBoth :
            /\ id \notin IdsIn(rep.v["assetAdditions"] \o rep.v["assetDeletions"], "Addition")
            /\ id \notin IdsIn(rep.v["assetAdditions"] \o rep.v["assetDeletions"], "Deletion")
            /\ (id \in IdsIn(AllBuckets(rep), "Addition") /\ id \in IdsIn(AllBuckets(rep), "Deletion"))
                   => (id \in DOMAIN ahdrLHDRIndices /\ ~SameSlot(id))

\* An asset of both tables left the first pair of its type and joined the
\* second.
AssetMovedReached ==
    /\ pc = "done"
    /\ \E id \in InBoth :
          /\ id \in DOMAIN ahdrLHDRIndices
          /\ ahdrLHDRIndices[id] = Index(0, 1)
          /\ loaded.o.lhdr[1].type = loaded.m.lhdr[2].type
          /\ id \in IdsIn(rep.v["layerModifications"], "Addition")
          /\ id \in IdsIn(rep.v["layerModifications"], "Deletion")

Count(vec, type) == Cardinality({i \in 1..Len(vec) : vec[i].type = type})

HeaderBuckets(r) ==
    r.v["pverDiffs"] \o r.v["pflgDiffs"] \o r.v["pcntDiffs"] \o r.v["pcrtDiffs"]
    \o r.v["pmodDiffs"] \o r.v["platDiffs"] \o r.v["ainfDiffs"]

PlatAdded == ~loaded.o.plat.exists /\ loaded.m.plat.exists /\ ~opts.assetDiffsOnly

PlatDeleted == loaded.o.plat.exists /\ ~loaded.m.plat.exists /\ ~opts.assetDiffsOnly

\* The record-level events of a report: assets, layer pairs, a whole
\* platform record, and the header fields (the strings of a platform record
\* of both archives among them).
AddEvents(r) ==
    r.numAssetsAdded + r.numLayersAdded
    + (IF PlatAdded THEN 1 ELSE Count(r.v["platDiffs"], "Addition"))

DelEvents(r) ==
    r.numAssetsDeleted + r.numLayersDeleted
    + (IF PlatDeleted THEN 1 ELSE Count(r.v["platDiffs"], "Deletion"))

ModEvents(r) ==
    r.numAssetsModified + r.numLayersModified + Count(HeaderBuckets(r), "Modification")

(***************************************************************************)
(* C5  Counting rule, as stated: each count is the number of record-level  *)
(* events of its kind; a modified layer pair adds one to modificationCount *)
(* and nothing to the other two, a whole platform record added or deleted  *)
(* adds one.                                                               *)
(***************************************************************************)
CountingRule ==
    pc = "done" => Counts(rep) = <<AddEvents(rep), DelEvents(rep), ModEvents(rep)>>

(***************************************************************************)
(* C5  Counting rule, amended: modificationCount is the number of          *)
(* record-level modifications; additionCount and deletionCount are the     *)
(* record-level additions and deletions plus one per joining / leaving     *)
(* sub-entry of the modified layer pairs plus one per string of a whole    *)
(* platform record added / deleted.                                        *)
(***************************************************************************)
CountingRuleAmended ==
    pc = "done" =>
        Counts(rep) =
            <<AddEvents(rep) + Count(rep.v["layerModifications"], "Addition")
                  + (IF PlatAdded THEN loaded.m.plat.stringCount ELSE 0),
              DelEvents(rep) + Count(rep.v["layerModifications"], "Deletion")
                  + (IF PlatDeleted THEN loaded.o.plat.stringCount ELSE 0),
              ModEvents(rep)>>

\* A modified layer pair with a joining and a leaving asset.
MembershipCountedReached ==
    /\ pc = "done"
    /\ rep.numLayersModified = 1
    /\ Count(rep.v["layerModifications"], "Addition") = 1
    /\ Count(rep.v["layerModifications"], "Deletion") = 1
    /\ Counts(rep) = <<1, 1, 1>>

\* A whole platform record of two strings added.
PlatformCountedReached ==
    pc = "done" /\ PlatAdded /\ loaded.m.plat.stringCount = 2 /\ Counts(rep) = <<3, 0, 0>>

\* Asset i of the original and asset j of the modified archive have the same
\* id and checksum and different sizes.
SizeOnly(i, j) ==
    /\ i \in 1..loaded.o.pcnt.assetCount
    /\ j \in 1..loaded.m.pcnt.assetCount
    /\ ahdrIndices[loaded.o.ahdr[i].id] = Index(i - 1, j - 1)
    /\ loaded.o.adbg[i].checksum = loaded.m.adbg[j].checksum
    /\ loaded.o.ahdr[i].size # loaded.m.ahdr[j].size

DataChangedEntry(id) ==
    \E k \in 1..Len(rep.v["assetModifications"]) :
        /\ rep.v["assetModifications"][k].id = id
        /\ rep.v["assetModifications"][k].left.fmt = "    data changed"

SizeEntry(id) ==
    \E k \in 1..Len(rep.v["assetModifications"]) :
        /\ rep.v["assetModifications"][k].id = id
        /\ rep.v["assetModifications"][k].left.fmt = "    size: %d"

(***************************************************************************)
(* C6  As stated: an asset of both archives with equal checksums and       *)
(* different sizes is classified as data changed (and has the "data        *)
(* changed" sub-entry in detailed mode) whatever ignoreDataIfChksumMatch.  *)
(***************************************************************************)
SizeIsDataChange ==
    pc = "done" =>
        \A i, j \in 1..MaxAssets :
            SizeOnly(i, j) =>
                /\ rep.dataChanged[loaded.o.ahdr[i].id]
                /\ opts.detailedAssets => DataChangedEntry(loaded.o.ahdr[i].id)

(***************************************************************************)
(* C6  Amended: such an asset is classified as data changed exactly when   *)
(* ignoreDataIfChksumMatch is off; with the option on dataChanged is false *)
(* and no "data changed" sub-entry is emitted.  In both cases the asset is *)
(* reported as modified, once, with its size sub-entry in detailed mode.   *)
(***************************************************************************)
SizeIsDataChangeAmended ==
    pc = "done" =>
        \A i, j \in 1..MaxAssets :
            SizeOnly(i, j) =>
                LET id == loaded.o.ahdr[i].id
                IN  /\ rep.dataChanged[id] = ~opts.ignoreDataIfChksumMatch
                    /\ opts.detailedAssets =>
                          /\ DataChangedEntry(id) = ~opts.ignoreDataIfChksumMatch
                          /\ SizeEntry(id)
                    /\ id \in IdsIn(rep.v["assetModifications"], "Modification")
                    /\ rep.numAssetsModified >= 1

\* The checksum shortcut on, detailed mode, sizes differ, checksums equal.
SizeOnlyShortcutReached ==
    /\ pc = "done"
    /\ opts.ignoreDataIfChksumMatch /\ opts.detailedAssets
    /\ SizeOnly(1, 1)
    /\ ~rep.dataChanged[loaded.o.ahdr[1].id]
    /\ SizeEntry(loaded.o.ahdr[1].id)

\* The scenario: asset tables {1, 2} and {2, 3}, one layer on each side, of
\* one type, listing 1, 2 in the original and 2, 3 in the modified archive.
JoinLeaveScenario ==
    /\ [i \in 1..loaded.o.pcnt.assetCount |-> loaded.o.ahdr[i].id] = <<1, 2>>
    /\ [i \in 1..loaded.m.pcnt.assetCount |-> loaded.m.ahdr[i].id] = <<2, 3>>
    /\ loaded.o.pcnt.layerCount = 1 /\ loaded.m.pcnt.layerCount = 1
    /\ loaded.o.lhdr[1].type = loaded.m.lhdr[1].type
    /\ loaded.o.lhdr[1].assetIDs = <<1, 2>>
    /\ loaded.m.lhdr[1].assetIDs = <<2, 3>>
    /\ ~opts.assetDiffsOnly

(***************************************************************************)
(* C7  As stated: in the scenario the layer-modifications bucket holds one *)
(* Modification for the pair with a sub-entry for asset 3 joining and none *)
(* for asset 1 leaving, and the pair is counted as one modified layer.     *)
(***************************************************************************)
JoinReported ==
    (pc = "done" /\ JoinLeaveScenario) =>
        /\ Count(rep.v["layerModifications"], "Modification") = 1
        /\ 3 \in IdsIn(rep.v["layerModifications"], "Addition")
        /\ 1 \notin IdsIn(rep.v["layerModifications"], "Deletion")
        /\ rep.numLayersModified = 1

(***************************************************************************)
(* C7  Amended: in the scenario the layer-modifications bucket holds no    *)
(* joining and no leaving sub-entry (asset 3 is reported in the            *)
(* asset-additions and asset 1 in the asset-deletions bucket); the pair is *)
(* reported and counted as modified only when the ldbg values of the two   *)
(* layers differ.                                                          *)
(***************************************************************************)
JoinSuppressed ==
    (pc = "done" /\ JoinLeaveScenario) =>
        LET d == IF loaded.o.ldbg[1].ldbg # loaded.m.ldbg[1].ldbg THEN 1 ELSE 0
        IN  /\ Count(rep.v["layerModifications"], "Addition") = 0
            /\ Count(rep.v["layerModifications"], "Deletion") = 0
            /\ IdsIn(rep.v["assetAdditions"], "Addition") = {3}
            /\ IdsIn(rep.v["assetDeletions"], "Deletion") = {1}
            /\ rep.numLayersModified = d
            /\ Len(rep.v["layerModifications"]) = 3 * d
            /\ Counts(rep) = <<1, 1, d>>

JoinSuppressedReached ==
    /\ pc = "done" /\ JoinLeaveScenario
    /\ loaded.o.ldbg[1].ldbg = loaded.m.ldbg[1].ldbg
    /\ rep.v["layerModifications"] = << >>

UniqueIds(hip) ==
    \A i, j \in 1..hip.pcnt.assetCount : hip.ahdr[i].id = hip.ahdr[j].id => i = j

\* The first line of the record of an asset: "  %s" in the summary and
\* "  AHDR (%s)" in the detailed report.
RecordHead(e) ==
    \/ e.type = "Addition" /\ e.right.fmt \in {"  %s", "  AHDR (%s)"}
    \/ e.type = "Deletion" /\ e.left.fmt \in {"  %s", "  AHDR (%s)"}

Records(vec, type, id) ==
    Cardinality({k \in 1..Len(vec) :
                    vec[k].id = id /\ vec[k].type = type /\ RecordHead(vec[k])})

\* Asset i of the original and asset j of the modified archive agree in the
\* fields the diff compares and in their payload bytes.
SameAsset(i, j) ==
    LET oa == loaded.o.ahdr[i]
        ma == loaded.m.ahdr[j]
        od == loaded.o.adbg[i]
        md == loaded.m.adbg[j]
    IN  /\ oa.type = ma.type /\ oa.size = ma.size /\ oa.flags = ma.flags
        /\ (opts.diffOffsets => oa.offset = ma.offset)
        /\ (opts.diffPluses => oa.plus = ma.plus)
        /\ od = md
        /\ Readable(loaded.o, oa.data, oa.size) /\ Readable(loaded.m, ma.data, ma.size)
        /\ Bytes(loaded.o, oa.data, oa.size) = Bytes(loaded.m, ma.data, ma.size)

(***************************************************************************)
(* C8  Asset classification by id: with assetDiffsOnly and ids unique in   *)
(* each archive, the asset-additions bucket holds exactly one record per   *)
(* id of the modified archive only (and nothing else), the asset-deletions *)
(* bucket one per id of the original only, an asset of both archives with  *)
(* the compared fields and the payload equal has no entry, and             *)
(* additionCount / deletionCount are the numbers of such ids.              *)
(***************************************************************************)
AssetClassification ==
    (pc = "done" /\ opts.assetDiffsOnly /\ UniqueIds(loaded.o) /\ UniqueIds(loaded.m)) =>
        LET O == AssetIds(loaded.o)
            M == AssetIds(loaded.m)
        IN  /\ \A id \in 0..MaxId :
                  /\ Records(rep.v["assetAdditions"], "Addition", id)
                        = IF id \in M \ O THEN 1 ELSE 0
                  /\ Records(rep.v["assetDeletions"], "Deletion", id)
                        = IF id \in O \ M THEN 1 ELSE 0
            /\ Count(rep.v["assetAdditions"], "Addition") = Len(rep.v["assetAdditions"])
            /\ Count(rep.v["assetDeletions"], "Deletion") = Len(rep.v["assetDeletions"])
            /\ \A i \in 1..loaded.o.pcnt.assetCount, j \in 1..loaded.m.pcnt.assetCount :
                  (loaded.o.ahdr[i].id = loaded.m.ahdr[j].id /\ SameAsset(i, j)) =>
                      \A k \in 1..Len(AllBuckets(rep)) :
                          AllBuckets(rep)[k].id # loaded.o.ahdr[i].id
            /\ rep.additionCount = Cardinality(M \ O)
            /\ rep.deletionCount = Cardinality(O \ M)
            /\ rep.numAssetsAdded = Cardinality(M \ O)
            /\ rep.numAssetsDeleted = Cardinality(O \ M)

\* The example: A = {1, 2}, B = {2, 3}, asset 2 unchanged.
AssetClassificationReached ==
    /\ pc = "done" /\ opts.assetDiffsOnly
    /\ AssetIds(loaded.o) = {1, 2} /\ AssetIds(loaded.m) = {2, 3}
    /\ UniqueIds(loaded.o) /\ UniqueIds(loaded.m)
    /\ Counts(rep) = <<1, 1, 0>>
    /\ Len(rep.v["assetAdditions"]) = 1 /\ Len(rep.v["assetDeletions"]) = 1
    /\ rep.v["assetModifications"] = << >>

\* What read() made of the file, the payload views apart (they are relative
\* to where the payload lies in the file).
Parsed(hip) ==
    [hip EXCEPT !.ahdr = [i \in 1..Len(hip.ahdr) |-> [hip.ahdr[i] EXCEPT !.data = NullPtr]]]

\* read() of the file without the unknown chunk, in the same build.
Reference == Run(Reader(rd.ref, rd.ndebug), 1)

\* exitBlock() left the unknown chunk with the cursor at its declared end.
UnknownExited ==
    \E n \in 1..Len(rd.exits) :
        /\ rd.exits[n].depth = 0
        /\ rd.exits[n].endpos = FromNat(rd.unk.end)
        /\ rd.exits[n].pos = rd.unk.end
        /\ rd.exits[n].id = (IF rd.unk.zero THEN U32(0, 0) ELSE TagOf("XXXX"))

(***************************************************************************)
(* C9  Chunk skip: a top-level chunk with a tag other than HIPA, PACK,     *)
(* DICT, STRM, at any place among the top-level chunks, does not make      *)
(* read() fail, exitBlock() leaves the cursor at its declared end, and the *)
(* other chunks are parsed as they are without it.                         *)
(***************************************************************************)
ChunkSkip ==
    (rd.status # "reading" /\ rd.unk.present) =>
        /\ Reference.status = "ok" => rd.status = "ok"
        /\ UnknownExited
        /\ Parsed(rd.hip) = Parsed(Reference.hip)

\* The same for a chunk with a tag other than 0 that follows the HIPA chunk.
ChunkSkipAfterHIPA ==
    (rd.status # "reading" /\ rd.unk.present /\ ~rd.unk.zero /\ rd.unk.k >= 1) =>
        /\ Reference.status = "ok" /\ rd.status = "ok"
        /\ UnknownExited
        /\ Parsed(rd.hip) = Parsed(Reference.hip)
        /\ rd.stack = << >>

ChunkSkipAfterHIPAReached ==
    /\ rd.status = "ok" /\ rd.unk.present /\ ~rd.unk.zero /\ rd.unk.k = 2
    /\ rd.nAhdr = 2 /\ UnknownExited

\* The AHDR / LHDR chunks parsed are not as many as PCNT declares.
CountMismatch ==
    rd.nAhdr # rd.hip.pcnt.assetCount \/ rd.nLhdr # rd.hip.pcnt.layerCount

(***************************************************************************)
(* C10  Count mismatch is fatal: when the AHDR chunks parsed are not as    *)
(* many as the declared asset count, or the LHDR chunks not as many as the *)
(* declared layer count (ATOC, LTOC or DICT may be missing), read() does   *)
(* not return true (it returns false, or the process ends in it) and no    *)
(* diff is performed.                                                      *)
(***************************************************************************)
CountMismatchFatal ==
    (rd.status # "reading" /\ ~rd.unk.present /\ CountMismatch) =>
        rd.status # "ok" /\ pc # "loaded"

\* In a build with the asserts, a mismatch in an ATOC or LTOC chunk that is
\* there ends the process.
CountMismatchAsserted ==
    (rd.status = "ok" /\ ~rd.ndebug /\ ~rd.unk.present) =>
        /\ (\E n \in 1..Len(rd.exits) : rd.exits[n].id = TagOf("ATOC"))
               => rd.nAhdr = rd.hip.pcnt.assetCount
        /\ (\E n \in 1..Len(rd.exits) : rd.exits[n].id = TagOf("LTOC"))
               => rd.nLhdr = rd.hip.pcnt.layerCount


\* The tags of the chunks of the stream that lie one after another from pos
\* on, each taken with the length it declares.
RECURSIVE TagsFrom(_, _)
TagsFrom(file, pos) ==
    IF pos + 8 > Len(file) THEN {}
    ELSE LET id == readLong(file, pos).x
             len == readLong(file, pos + 4).x
         IN  {id} \cup (IF len.hi > 0 THEN {} ELSE TagsFrom(file, pos + 8 + Val(len)))

HasHIPA(file) == TagOf("HIPA") \in TagsFrom(file, 0)

(***************************************************************************)
(* C11  Missing identification chunk is fatal: for a stream without a      *)
(* top-level HIPA chunk (the empty stream and a stream shorter than a      *)
(* chunk header among them) read() does not return true.                   *)
(***************************************************************************)
MissingHIPAFatal ==
    (rd.status # "reading" /\ ~HasHIPA(rd.file)) => rd.status # "ok" /\ pc # "loaded"

\* The same once read() has left a top-level chunk.
MissingHIPAFatalAfterChunk ==
    (rd.status # "reading" /\ ~HasHIPA(rd.file)
         /\ \E n \in 1..Len(rd.exits) : rd.exits[n].depth = 0)
        => rd.status \notin {"ok"}


(***************************************************************************)
(* C12  Payload bounds: after read() returned true the payload view of     *)
(* every asset lies inside the payload buffer (data_start <= offset and    *)
(* offset + size <= data_start + length of the buffer); an input with an   *)
(* asset outside it does not load.                                         *)
(***************************************************************************)
PayloadBounds ==
    rd.status = "ok" =>
        \A i \in 1..Len(rd.hip.ahdr) :
            i <= rd.hip.pcnt.assetCount =>
                Readable(rd.hip, rd.hip.ahdr[i].data, rd.hip.ahdr[i].size)

\* The same for the well-formed archives.
PayloadBoundsWellFormed ==
    (rd.status # "reading" /\ \E tops \in GoodTops : rd.file = Flatten(tops)) =>
        /\ rd.status = "ok"
        /\ \A i \in 1..rd.hip.pcnt.assetCount :
              Readable(rd.hip, rd.hip.ahdr[i].data, rd.hip.ahdr[i].size)


\* A chunk read() entered declares an end behind the end of the stream.
Overrun ==
    LET past(b) == GeqU32(b.endpos, FromNat(Len(rd.file) + 1))
    IN  \/ \E n \in 1..Len(rd.exits) : past(rd.exits[n])
        \/ \E n \in 1..Len(rd.stack) : past(rd.stack[n])

(***************************************************************************)
(* C13  Length consistency is fatal: when a chunk that was entered         *)
(* declares an end offset greater than the length of the stream, read()    *)
(* does not return true.                                                   *)
(***************************************************************************)
LengthConsistencyFatal ==
    (rd.status # "reading" /\ Overrun) => rd.status # "ok" /\ pc # "loaded"

\* What the code does check: a payload the stream does not hold in full
\* makes read() return false.
ShortPayloadFatal ==
    (rd.status = "ok" /\ rd.hip.pcnt.assetCount > 0
         /\ \E n \in 1..Len(rd.exits) : rd.exits[n].id = TagOf("DPAK"))
        => \A n \in 1..Len(rd.exits) :
               rd.exits[n].id = TagOf("DPAK")
                   => ~GeqU32(rd.exits[n].endpos, FromNat(Len(rd.file) + 1))


(***************************************************************************)
(* C14  Depth overflow is fatal: when enterBlock() is called with          *)
(* HIP_MAX_STACK_DEPTH chunks on the stack, read() does not return true    *)
(* (it is no ordinary end of a scope).                                     *)
(***************************************************************************)
DepthOverflowFatal ==
    (rd.status # "reading" /\ rd.overflow) => rd.status # "ok" /\ pc # "loaded"

\* In a build with the asserts the process ends in that call.
DepthOverflowAsserted == (rd.overflow /\ ~rd.ndebug) => rd.status = "abort"


(***************************************************************************)
(* C15  Chunk nesting: in every state of the reader, of two adjacent       *)
(* entries of the stack the child's end offset is not greater than its     *)
(* parent's (stack[k+1].endpos <= stack[k].endpos), whatever the input.    *)
(***************************************************************************)
ChunkNesting ==
    \A k \in 1..(Len(rd.stack) - 1) : GeqU32(rd.stack[k].endpos, rd.stack[k + 1].endpos)

\* The same for the well-formed archives.
ChunkNestingWellFormed ==
    (\E tops \in GoodTops : rd.file = Flatten(tops)) =>
        \A k \in 1..(Len(rd.stack) - 1) :
            GeqU32(rd.stack[k].endpos, rd.stack[k + 1].endpos)


\* The table indices of the layers of type t of an archive, in file order.
LayersOfType(hip, t) ==
    SetToSeq({i \in 0..(hip.pcnt.layerCount - 1) : hip.lhdr[i + 1].type = t})

LayerTypes(hip) == {hip.lhdr[i].type : i \in 1..hip.pcnt.layerCount}

(***************************************************************************)
(* C16  Layer ordinal matching: for every layer type t with n_o original   *)
(* and n_m modified layers in file order, lhdrIndices[t] has max(n_o, n_m) *)
(* pairs, the k-th pair holding the index of the k-th original and of the  *)
(* k-th modified layer of the type, -1 for a side that has no k-th layer;  *)
(* a pair with a side missing is reported as a layer addition or deletion, *)
(* never as a modification; every layer index is in exactly one pair.      *)
(***************************************************************************)
LayerOrdinalMatching ==
    (pc = "done" /\ ~opts.assetDiffsOnly) =>
        /\ DOMAIN lhdrIndices = LayerTypes(loaded.o) \cup LayerTypes(loaded.m)
        /\ \A t \in DOMAIN lhdrIndices :
              LET O == LayersOfType(loaded.o, t)
                  M == LayersOfType(loaded.m, t)
              IN  /\ Len(lhdrIndices[t]) = MaxOf({Len(O), Len(M)})
                  /\ \A k \in 1..Len(lhdrIndices[t]) :
                        lhdrIndices[t][k] = Index(IF k <= Len(O) THEN O[k] ELSE -1,
                                                  IF k <= Len(M) THEN M[k] ELSE -1)
        /\ Len(rep.layerLog) = Len(LayerPairs(lhdrIndices, typeOrder))
        /\ \A n \in 1..Len(rep.layerLog) :
              LET e == rep.layerLog[n]
              IN  /\ e.l = LayerPairs(lhdrIndices, typeOrder)[n]
                  /\ e.l.oidx = -1 =>
                        /\ Len(e.additions) >= 4 /\ e.deletions = << >>
                        /\ e.modifications = << >>
                        /\ <<e.dAdd, e.dDel, e.dMod>> = <<1, 0, 0>>
                  /\ e.l.midx = -1 =>
                        /\ Len(e.deletions) >= 4 /\ e.additions = << >>
                        /\ e.modifications = << >>
                        /\ <<e.dAdd, e.dDel, e.dMod>> = <<0, 1, 0>>
                  /\ (e.l.oidx # -1 /\ e.l.midx # -1) =>
                        e.additions = << >> /\ e.deletions = << >>
        /\ rep.numLayersAdded
               = Cardinality({n \in 1..Len(rep.layerLog) : rep.layerLog[n].l.oidx = -1})
        /\ rep.numLayersDeleted
               = Cardinality({n \in 1..Len(rep.layerLog) : rep.layerLog[n].l.midx = -1})

\* Two layers of a type against one and one of another type, in another
\* order: a pair, a deletion and an addition.
LayerOrdinalMatchingReached ==
    /\ pc = "done" /\ ~opts.assetDiffsOnly
    /\ LayersOfType(loaded.o, 0) = <<0, 1>>
    /\ LayersOfType(loaded.m, 0) = <<1>>
    /\ LayersOfType(loaded.m, 1) = <<0>>
    /\ lhdrIndices[0] = <<Index(0, 1), Index(1, -1)>>
    /\ lhdrIndices[1] = <<Index(-1, 0)>>
    /\ rep.numLayersAdded = 1 /\ rep.numLayersDeleted = 1


Members(lhdr) == {lhdr.assetIDs[j] : j \in 1..lhdr.assetCount}

\* The pair l has both sides, with the same members and the same ldbg.
UnchangedPair(l) ==
    /\ l.oidx # -1 /\ l.midx # -1
    /\ Members(loaded.o.lhdr[l.oidx + 1]) = Members(loaded.m.lhdr[l.midx + 1])
    /\ loaded.o.ldbg[l.oidx + 1] = loaded.m.ldbg[l.midx + 1]

\* The pass of the layer loop logged in e reported and counted nothing.
Silent(e) ==
    /\ e.modifications = << >> /\ e.additions = << >> /\ e.deletions = << >>
    /\ <<e.dAdd, e.dDel, e.dMod>> = <<0, 0, 0>>

(***************************************************************************)
(* C17  Unchanged layer pairs are silent: a pair of layers with equal      *)
(* member sets and equal debug fields adds nothing to the                  *)
(* layer-modifications bucket and changes none of the three counters, also *)
(* when the table indices of the two layers differ or an asset of the      *)
(* layer is listed in another layer as well.                               *)
(***************************************************************************)
UnchangedPairsSilent ==
    ~rep.crashed =>
        \A n \in 1..Len(rep.layerLog) :
            UnchangedPair(rep.layerLog[n].l) => Silent(rep.layerLog[n])

\* The same when no member of the pair is listed in a later layer of
\* either archive.
UnchangedPairsSilentSingle ==
    ~rep.crashed =>
        \A n \in 1..Len(rep.layerLog) :
            LET l == rep.layerLog[n].l
            IN  (/\ UnchangedPair(l)
                 /\ \A id \in Members(loaded.o.lhdr[l.oidx + 1]) :
                       ahdrLHDRIndices[id] = l)
                    => Silent(rep.layerLog[n])

UnchangedPairsSilentSingleReached ==
    /\ pc = "done"
    /\ \E n \in 1..Len(rep.layerLog) :
          LET l == rep.layerLog[n].l
          IN  /\ UnchangedPair(l) /\ l = Index(0, 1)
              /\ Members(loaded.o.lhdr[1]) = {1, 2}
              /\ \A id \in {1, 2} : ahdrLHDRIndices[id] = l
              /\ Silent(rep.layerLog[n])


(***************************************************************************)
(* C18  Load termination: for every finite stream read() ends, returning   *)
(* true or false, after finitely many enterBlock / exitBlock steps; the    *)
(* cursor after exitBlock() is never smaller than the position at which    *)
(* the header of that chunk started, also when position + declared length  *)
(* passes 2^32.  The streams here are shorter than 8 * MaxExits bytes: a   *)
(* read() that ends makes fewer than MaxExits exitBlock() calls on them.   *)
(***************************************************************************)
LoadTermination ==
    /\ \A n \in 1..Len(rd.exits) : rd.exits[n].pos >= rd.exits[n].start
    /\ Len(rd.exits) < MaxExits

\* In the streams in which no chunk's position + length passes 2^32 every
\* exitBlock() leaves the cursor behind the 8-byte header of its chunk,
\* which was read from the stream, and read() makes fewer than MaxExits
\* exitBlock() calls.
LoadTerminationUnwrapped ==
    ~rd.wrapped =>
        /\ \A n \in 1..Len(rd.exits) :
              /\ rd.exits[n].pos >= rd.exits[n].start + 8
              /\ rd.exits[n].start + 8 <= Len(rd.file)
        /\ Len(rd.exits) < MaxExits

\* read() ended after chunks were left, none of them wrapping.
LoadTerminationUnwrappedReached ==
    /\ rd.status \in {"ok", "fail"} /\ ~rd.wrapped
    /\ Len(rd.exits) >= 4

\* exitBlock() set the cursor back to where the header of its chunk starts:
\* the chunk is entered again, and again.
LoopReached ==
    /\ rd.status = "reading" /\ rd.wrapped
    /\ Len(rd.exits) = MaxExits
    /\ rd.exits[MaxExits].id = TagOf("XXXX")
    /\ rd.exits[MaxExits].pos = 8 /\ rd.pos = 8 /\ Top(rd).at = "enter"


(***************************************************************************)
\* The stack as the reader loops keep it, read() being the first of the
\* active readers: the k-th is called with k - 1 chunks entered, has one
\* more between enterBlock() returning a tag and exitBlock(), and the chunk
\* it is about to leave is the one its enterBlock() returned.
Balanced ==
    /\ \A k \in 1..Len(rd.frames) - 1 : rd.frames[k].at = "switch"
    /\ LET f == Top(rd)
       IN  IF f.at \in {"enter", "end"} THEN Len(rd.stack) = Len(rd.frames) - 1
           ELSE /\ Len(rd.stack) = Len(rd.frames)
                /\ rd.stack[Len(rd.stack)].id = f.cid

(***************************************************************************)
(* C19  Chunk stack balance: enterBlock() pushes a chunk if and only if it *)
(* returns a non-zero tag, every exitBlock() pops the chunk its reader     *)
(* entered, and the depth of the stack is 0 when read() returns true, for  *)
(* any stream, one with a chunk whose tag is 0 included.                   *)
(***************************************************************************)
ChunkStackBalance ==
    /\ rd.status = "reading" => Balanced
    /\ rd.status = "ok" => Len(rd.stack) = 0

\* A chunk with tag 0 was entered: enterBlock() pushed it and returned 0.
ZeroTagEntered ==
    \/ \E n \in 1..Len(rd.stack) : rd.stack[n].id = U32(0, 0)
    \/ \E n \in 1..Len(rd.exits) : rd.exits[n].id = U32(0, 0)

\* The stack is balanced as long as no chunk with tag 0 was entered.
ChunkStackBalanceNonZeroTags ==
    ~ZeroTagEntered =>
        /\ rd.status = "reading" => Balanced
        /\ rd.status = "ok" => Len(rd.stack) = 0

\* read() returned true after readers were called and chunks were left,
\* none with tag 0.
ChunkStackBalanceNonZeroTagsReached ==
    /\ rd.status = "ok" /\ ~ZeroTagEntered /\ Len(rd.stack) = 0
    /\ \E n \in 1..Len(rd.exits) : rd.exits[n].depth >= 3

\* read() returned true with a chunk of tag 0 still on the stack.
ZeroTagLeaked ==
    /\ rd.status = "ok" /\ Len(rd.stack) > 0
    /\ \E n \in 1..Len(rd.stack) : rd.stack[n].id = U32(0, 0)


\* The asset ids a vector of entries was made for.
IdsOf(vec) == {vec[k].id : k \in 1..Len(vec)}

\* What a report says has changed: the asset ids added, deleted and
\* modified, and the three counters.
Changes(r) ==
    [added |-> IdsOf(r.v["assetAdditions"]), addedAssets |-> r.addedAssets,
     deleted |-> IdsOf(r.v["assetDeletions"]), deletedAssets |-> r.deletedAssets,
     modified |-> IdsOf(r.v["assetModifications"]),
     nums |-> <<r.numAssetsAdded, r.numAssetsDeleted, r.numAssetsModified>>,
     counts |-> Counts(r)]

\* The asset loop (main.cpp 457-590) over ids with the options opt, every
\* memcmp of lines 515-528 giving what dcs recorded for its asset.
RECURSIVE AssetLoopWith(_, _, _, _, _, _, _)
AssetLoopWith(r, oh, mh, aidx, ids, opt, dcs) ==
    IF Len(ids) = 0 THEN r
    ELSE LET a == aidx[Head(ids)]
             oahdr == oh.ahdr[a.oidx + 1]
             mahdr == mh.ahdr[a.midx + 1]
             oadbg == oh.adbg[a.oidx + 1]
             madbg == mh.adbg[a.midx + 1]
             dc == Get(dcs, Head(ids), FALSE)
             r1 == IF a.oidx = -1 THEN AssetAdded(r, mh, a, opt)
                   ELSE IF a.midx = -1 THEN AssetDeleted(r, oh, a, opt)
                   ELSE IF opt.detailedAssets
                   THEN AssetDetailed(r, oahdr, mahdr, oadbg, madbg, dc, opt)
                   ELSE AssetSummary(r, oahdr, mahdr, oadbg, madbg, dc, opt)
         IN  AssetLoopWith(r1, oh, mh, aidx, Tail(ids), opt, dcs)

\* The options with detailedAssets the other way round.
OtherMode == [opts EXCEPT !.detailedAssets = ~@]

(***************************************************************************)
(* C20  Detailed and summary modes agree on what changed: for every pair   *)
(* of loaded archives and every setting of the other options the diff with *)
(* detailedAssets and the diff without it give the same sets of added,     *)
(* deleted and modified asset ids and the same final additionCount,        *)
(* deletionCount and modificationCount.  After every pass of the asset     *)
(* loop the report agrees with the one the other mode makes of the same    *)
(* assets, and the finished report with the whole run in the other mode.   *)
(***************************************************************************)
ModesAgree ==
    /\ (pc = "diff" /\ lit = LayerPairs(lhdrIndices, typeOrder)) =>
          LET all == SetToSeq(DOMAIN ahdrIndices)
              seen == SubSeq(all, 1, Len(all) - Len(ait))
              start == IF opts.assetDiffsOnly THEN ZeroReport
                       ELSE HeaderDiff(ZeroReport, ohip, mhip)
          IN  Changes(rep) = Changes(AssetLoopWith(start, ohip, mhip, ahdrIndices, seen,
                                                   OtherMode, rep.dataChanged))
    /\ pc = "done" =>
          \A ub \in UBOutcomes :
              rep = RunDiff(loaded.o, loaded.m, opts, typeOrder, ub) =>
                  Changes(rep) = Changes(RunDiff(loaded.o, loaded.m, OtherMode, typeOrder, ub))

\* A detailed run that ended with an asset added (twelve lines), one
\* deleted and one modified, each counted once.
ModesAgreeReached ==
    /\ pc = "done" /\ opts.detailedAssets
    /\ Cardinality(rep.addedAssets) = 1 /\ Cardinality(rep.deletedAssets) = 1
    /\ rep.numAssetsModified = 1
    /\ Len(rep.v["assetAdditions"]) = 12 /\ Len(rep.v["assetDeletions"]) = 12
    /\ Len(rep.v["assetModifications"]) > 1
    /\ Counts(rep) = <<1, 1, 1>>
    /\ \E ub \in UBOutcomes : rep = RunDiff(loaded.o, loaded.m, opts, typeOrder, ub)


\* The lookup k of the layer loop reads an element of the adbg array of
\* its archive.
InRange(k) ==
    LET hip == IF k[1] = "o" THEN ohip ELSE mhip
    IN  k[3] # -1 /\ 0 <= k[3] /\ k[3] < hip.pcnt.assetCount

(***************************************************************************)
(* C21  Layer diff lookups are always in range: whenever the layer diff    *)
(* renders an asset name for a member id (of an added layer, of a deleted  *)
(* layer, or as a joining / leaving sub-entry of a modified pair), the     *)
(* index ahdrIndices[id].midx / .oidx it uses is not -1 and less than the  *)
(* asset count of that archive, also when a layer lists an id its          *)
(* archive's asset table does not hold.                                    *)
(***************************************************************************)
LookupsInRange == \A k \in rep.lookups : InRange(k)

\* The lookups are in range when every id a layer lists is in the asset
\* table of its archive.
LookupsInRangeListed ==
    (/\ LayerMemberIds(loaded.o) \subseteq AssetIds(loaded.o)
     /\ LayerMemberIds(loaded.m) \subseteq AssetIds(loaded.m)) =>
        \A k \in rep.lookups : InRange(k)

\* A finished run that rendered names from both archives, every listed id
\* in its asset table.
LookupsInRangeListedReached ==
    /\ pc = "done"
    /\ LayerMemberIds(loaded.o) \subseteq AssetIds(loaded.o)
    /\ LayerMemberIds(loaded.m) \subseteq AssetIds(loaded.m)
    /\ \E k \in rep.lookups : k[1] = "o"
    /\ \E k \in rep.lookups : k[1] = "m"

\* The layer loop read adbg[-1] and went on with what it found there.
LookupOutsideReached ==
    /\ pc = "done"
    /\ \E k \in rep.lookups : k[3] = -1


\* The archive hip is the loaded archive was, but for a final '\n' of the
\* creation string replaced by the terminator.
Normalized(hip, was) ==
    LET str == was.pcrt.string
        len == Len(str)
    IN  /\ [hip EXCEPT !.pcrt = was.pcrt] = was
        /\ hip.pcrt.time = was.pcrt.time
        /\ \/ hip.pcrt.string = str
           \/ /\ len > 0 /\ str[len] = NL
              /\ hip.pcrt.string = SubSeq(str, 1, len - 1)

(***************************************************************************)
(* C22  Creation-string normalization has no other effect: the step that   *)
(* strips the trailing line terminator from each archive's creation        *)
(* string, run after loading and before the diff, changes at most the last *)
(* character of that string (a '\n' replaced by the terminator) and leaves *)
(* the creation timestamp and every other field as loaded, for every       *)
(* loaded creation string, the empty one included; apart from this step no *)
(* archive field changes between the end of loading and the end of the     *)
(* diff.                                                                   *)
(***************************************************************************)
NormalizationOnly ==
    /\ Normalized(ohip, loaded.o) /\ Normalized(mhip, loaded.m)
    /\ pc = "loaded" => (ohip = loaded.o /\ mhip = loaded.m)
    /\ pc \notin {"loaded", "read", "exit"} =>
          /\ ohip = [loaded.o EXCEPT !.pcrt = hackPCRTString(@)]
          /\ mhip = [loaded.m EXCEPT !.pcrt = hackPCRTString(@)]

\* The same for the archives loaded with a creation string that is not
\* empty.
NormalizationOnlyNonEmpty ==
    /\ loaded.o.pcrt.string # << >> => Normalized(ohip, loaded.o)
    /\ loaded.m.pcrt.string # << >> => Normalized(mhip, loaded.m)
    /\ pc = "loaded" => (ohip = loaded.o /\ mhip = loaded.m)
    /\ pc \notin {"loaded", "read", "exit"} =>
          /\ ohip = [loaded.o EXCEPT !.pcrt = hackPCRTString(@)]
          /\ mhip = [loaded.m EXCEPT !.pcrt = hackPCRTString(@)]

\* A finished diff whose original archive lost the final '\n' of "a\n" and
\* kept its timestamp, the modified one having no '\n' to lose.
NormalizationOnlyNonEmptyReached ==
    /\ pc = "done"
    /\ loaded.o.pcrt = [time |-> 167772160, string |-> <<97, NL>>]
    /\ ohip.pcrt = [time |-> 167772160, string |-> <<97>>]
    /\ loaded.m.pcrt.string = <<97>> /\ mhip = loaded.m

\* The step cleared the most significant byte of the timestamp of an
\* archive loaded with an empty creation string.
TimestampChangedReached ==
    /\ pc = "done"
    /\ loaded.o.pcrt = [time |-> 167772160, string |-> << >>]
    /\ ohip.pcrt.time = 0

==============================================================================
